---- MODULE Spec2Model ----
(***************************************************************************)
(* Model of the Siglent function generator driver                          *)
(* (ivi/siglent/siglentFgenBase.py): the cached SCPI option accessor, the  *)
(* reply decoder it uses, the mode-dependent getters and setters and the   *)
(* output-mode switch with its save and restore of parameters.             *)
(*                                                                         *)
(* A driver method is an operator from a call state s to a call state:     *)
(*   s.val    the attributes self._<tag>[index] (cache value and shadow)   *)
(*   s.valid  the validity flags of the (tag, index) cache entries         *)
(*   s.fmode  self._output_arbitrary_frequency_mode                        *)
(*   s.opmode self._output_operation_mode                                  *)
(*   s.dev    the registers of the instrument behind the transport         *)
(*   s.io     the transport operations issued so far by the running call   *)
(*   s.ret    the value returned, s.err the exception raised ("none")      *)
(* Every method returns its argument unchanged when an exception is already *)
(* raised, so F2(F1(s)) is "F1; F2" with exception propagation.            *)
(* Numbers stand for Python floats and ints; the text of a number is       *)
(* ToString of it.                                                         *)
(*                                                                         *)
(* The reply decoder is a pure function of the reply line; DecoderSpec     *)
(* applies it to the lines of a bounded grammar (reply, parsed).           *)
(***************************************************************************)
EXTENDS Integers, Sequences, FiniteSets, TLC

VARIABLES val, valid, fmode, opmode, dev, simulate, call, io, ret, err, ncalls, rt,
          reply, parsed, threads, burst, wfm

vars == <<val, valid, fmode, opmode, dev, simulate, call, io, ret, err, ncalls, rt,
          reply, parsed, threads, burst, wfm>>

\* ------------------------------------------------------------------ bounds

MaxCalls == 2

MaxTokens == 4

\* ------------------------------------------------------- program constants

NumChannels == 2

NoChan == -1

DefaultAmplitude == 2

DefaultDcOffset == 0

DefaultStartPhase == 0

DefaultFrequency == 1000

DefaultDutyCycle == 50

DefaultGain == 2

DefaultArbFrequency == 1000

DefaultArbOffset == 0

DefaultSampleRate == 1000000

Chan == 0 .. (NumChannels - 1)

NoneVal == "None"

StandardWaveformMapping ==
    [sine |-> "SINE", square |-> "PULSE", triangle |-> "RAMP", dc |-> "DC"]

\* The tags of the cache entries: the attribute name without its underscore.
T_mode == "output_mode"
T_clock == "output_reference_clock_source"
T_shape == "output_standard_waveform_waveform"
T_amp == "output_standard_waveform_amplitude"
T_ofst == "output_standard_waveform_dc_offset"
T_phase == "output_standard_waveform_start_phase"
T_freq == "output_standard_waveform_frequency"
T_duty == "output_standard_waveform_duty_cycle_high"
T_gain == "output_arbitrary_gain"
T_aofst == "output_arbitrary_offset"
T_afreq == "output_arbitrary_frequency"
T_awfm == "output_arbitrary_waveform"
T_srate == "output_arbitrary_sample_rate"
T_srate2 == "arbitrary_sample_rate"
T_submode == "output_arbitrary_sub_mode"
T_enabled == "output_enabled"
T_load == "output_impedance"

FunctionTags == {T_shape, T_amp, T_ofst, T_phase, T_freq, T_duty}

ArbitraryTags == {T_gain, T_aofst, T_afreq, T_awfm}

\* Attributes that _init_outputs creates as channel-indexed lists.
Attributes ==
    FunctionTags \cup ArbitraryTags
        \cup {T_mode, T_clock, T_srate, T_submode, T_enabled, T_load}

\* Cache entries that carry a validity flag in this model.
Tags == Attributes \cup {T_srate2}

\* ------------------------------------------------------------ exceptions

E_none == "none"
E_unexpected == "UnexpectedResponseException"
E_invalid == "InvalidOptionValueException"
E_unsupported == "ValueNotSupportedException"
E_attribute == "AttributeError"
E_index == "IndexError"
E_key == "KeyError"
E_value == "ValueError"
E_io == "IOError"

Failed(s) == s.err # E_none

Raise(s, e) == [s EXCEPT !.err = e, !.ret = NoneVal]

Return(s, v) == [s EXCEPT !.ret = v]

\* The one element of a singleton set: Only({e : x \in {d}}) is e with x
\* standing for the value of d.
Only(S) == CHOOSE x \in S : TRUE

\* ---------------------------------------------------------------- tokens
\* One comma-separated field of a reply: a word ("ARB", "AMP") or a number
\* followed by a unit ("1.5V").
Word(w) == [k |-> "w", w |-> w, n |-> 0]

Qty(n, u) == [k |-> "q", w |-> u, n |-> n]

\* A separator character of a line: " ", ":" or ",".
Sep(c) == [k |-> "s", w |-> c, n |-> 0]

SP == Sep(" ")

COLON == Sep(":")

COMMA == Sep(",")

\* A Python str is the sequence of its fields and separator characters;
\* Str(w) is the str of the single word w.
Str(w) == <<Word(w)>>

\* str.split(sep, maxsplit), scanning str up to position i: a separator
\* starts a new piece while fewer than maxsplit splits were made, any other
\* character joins the last piece.
RECURSIVE SplitScan(_, _, _, _)
SplitScan(str, sep, maxsplit, i) ==
    IF i = 0 THEN << << >> >>
    ELSE Only({ IF str[i] = sep /\ Len(p) <= maxsplit
                THEN Append(p, << >>)
                ELSE [p EXCEPT ![Len(p)] = Append(@, str[i])]
                : p \in {SplitScan(str, sep, maxsplit, i - 1)} })

Split(str, sep, maxsplit) == SplitScan(str, sep, maxsplit, Len(str))

\* str.split(sep) without a limit.
SplitAll(str, sep) == SplitScan(str, sep, Len(str), Len(str))

\* ---------------------------------------------------------------- device
\* The instrument behind the transport: per channel the registers of the
\* BSWV block, the selected arbitrary waveform (ARWV NAME) and the sampling
\* sub-mode and sample rate (SRATE MODE, VALUE), and one device-wide
\* reference clock register (ROSC), each holding the token the
\* instrument reports. NoTok marks a register the instrument does not
\* report in its reply.
NoTok == Word("")

WordOpts == {"WVTP", "NAME", "ROSC", "MODE", "OUTP"}

Unit(opt) ==
    CASE opt = "FRQ" -> "HZ"
      [] opt \in {"AMP", "OFST"} -> "V"
      [] opt = "VALUE" -> "Sa/s"
      [] OTHER -> ""

\* What the instrument holds after a write: the load written as 0 went out
\* as the word HZ.
DevStore(opt, arg) ==
    IF opt \in WordOpts THEN Word(arg)
    ELSE IF opt = "LOAD" /\ arg = 0 THEN Word("HZ")
    ELSE Qty(arg, Unit(opt))

ReplyFields(d, ch, command) ==
    CASE command = "BSWV" ->
           << <<"WVTP", d[ch].WVTP>>, <<"FRQ", d[ch].FRQ>>, <<"AMP", d[ch].AMP>>,
              <<"OFST", d[ch].OFST>>, <<"PHSE", d[ch].PHSE>>,
              <<"DUTY", d[ch].DUTY>> >>
      [] command = "ARWV" -> << <<"NAME", d[ch].NAME>> >>
      [] command = "SRATE" ->
           << <<"MODE", d[ch].MODE>>, <<"VALUE", d[ch].VALUE>> >>
      [] OTHER -> << >>

\* The reply line of the instrument to "<command>?":
\* "[C<n>:]<command> <option>,<value>,<option>,<value>,...", made of the
\* first i registers, those the instrument does not report left out.
RECURSIVE Payload(_, _)
Payload(fields, i) ==
    IF i = 0 THEN << >>
    ELSE Only({ IF fields[i][2] = NoTok THEN p
                ELSE (IF Len(p) = 0 THEN p ELSE Append(p, COMMA))
                         \o <<Word(fields[i][1]), COMMA, fields[i][2]>>
                : p \in {Payload(fields, i - 1)} })

DevReply(d, ch, command) ==
    (IF ch < 0 THEN << >> ELSE <<Word("C" \o ToString(ch + 1)), COLON>>)
        \o <<Word(command), SP>>
        \o (IF command = "ROSC" THEN <<d[NoChan].ROSC>>
            ELSE IF command = "OUTP"
            THEN <<d[ch].OUTP, COMMA, Word("LOAD"), COMMA, d[ch].LOAD>>
            ELSE Payload(ReplyFields(d, ch, command),
                         Len(ReplyFields(d, ch, command))))

\* --------------------------------------------------------------- decoder
\* The result of the decoder: the exception raised, or the dictionary with
\* its "_CHAN" entry (when has_chan), its "_CMD" entry and the options; data
\* is the local variable the options are extracted from.
ParseError(e) ==
    [err |-> e, has_chan |-> FALSE, chan |-> 0, cmd |-> << >>, data |-> << >>,
     opts |-> << >>]

\* The key/value pairs of the parts, the last value of a key winning.
PairsOf(p) ==
    [k \in {p[2 * i - 1] : i \in 1 .. Len(p) \div 2} |->
        p[2 * (CHOOSE i \in 1 .. Len(p) \div 2 :
                 /\ p[2 * i - 1] = k
                 /\ \A j \in 1 .. Len(p) \div 2 : p[2 * j - 1] = k => j <= i)]]

PairUp(parts) == Only({ PairsOf(p) : p \in {parts} })

\* Faulty variant: the command is made the first key whatever the number of
\* parts.
OptionsAlwaysInferring(command, parts) == PairUp(<<command>> \o parts)

\* Faulty variant: the parts are paired as they are.
OptionsNeverInferring(command, parts) == PairUp(parts)

\* The options of the data: an odd number of parts gets the command as the
\* key of the first.
Options(command, parts) ==
    IF Len(parts) % 2 > 0 THEN PairUp(<<command>> \o parts)
    ELSE PairUp(parts)

\* The decoder once the header is split at its colons.
ParseSplitHeader(pieces, data) ==
    IF Len(pieces) # 2 THEN ParseError(E_value)
    ELSE IF pieces[1] \notin {Str("C1"), Str("C2")}
    THEN ParseError(E_unexpected)
    ELSE [err |-> E_none, has_chan |-> TRUE,
          chan |-> IF pieces[1] = Str("C1") THEN 1 ELSE 2,
          cmd |-> pieces[2],
          data |-> data,
          opts |-> Options(pieces[2], SplitAll(data, COMMA))]

\* Faulty variant: every channel token other than C2 is taken for channel 1.
ParseAcceptingAnyChannel(header, data) ==
    IF \E i \in 1 .. Len(header) : header[i] = COLON
    THEN Only({ IF Len(pieces) # 2 THEN ParseError(E_value)
                ELSE [err |-> E_none, has_chan |-> TRUE,
                      chan |-> IF pieces[1] = Str("C2") THEN 2 ELSE 1,
                      cmd |-> pieces[2],
                      data |-> data,
                      opts |-> Options(pieces[2], SplitAll(data, COMMA))]
                : pieces \in {SplitAll(header, COLON)} })
    ELSE [err |-> E_none, has_chan |-> FALSE, chan |-> 0, cmd |-> header,
          data |-> data,
          opts |-> Options(header, SplitAll(data, COMMA))]

\* The decoder once the line is unpacked into header and data.
ParseHeaderAndData(header, data) ==
    IF \E i \in 1 .. Len(header) : header[i] = COLON
    THEN Only({ ParseSplitHeader(pieces, data)
                : pieces \in {SplitAll(header, COLON)} })
    ELSE [err |-> E_none, has_chan |-> FALSE, chan |-> 0, cmd |-> header,
          data |-> data,
          opts |-> Options(header, SplitAll(data, COMMA))]

\* header, data = tuple(resp.split(' ', 2)) raises ValueError unless the
\* split gives exactly two pieces.
_parse_scpi_response_to_dict(resp) ==
    Only({ IF Len(pieces) # 2 THEN ParseError(E_value)
           ELSE ParseHeaderAndData(pieces[1], pieces[2])
           : pieces \in {Split(resp, SP, 2)} })

\* The single field a str consists of; a str that is no single field reads
\* as the empty word.
TokenOf(str) == IF Len(str) = 1 THEN str[1] ELSE NoTok

\* The cast_cache functions handed to the cached getter, by name; each
\* yields the value or the exception the cast raises.
CastCache(kind, tok) ==
    CASE kind = "mode" ->
           [err |-> E_none,
            v |-> IF tok = Word("ARB") THEN "arbitrary" ELSE "function"]
      [] kind = "clock" ->
           [err |-> E_none,
            v |-> IF tok = Word("INT") THEN "internal" ELSE "external"]
      [] kind = "float" ->
           IF tok.k = "q" THEN [err |-> E_none, v |-> tok.n]
           ELSE [err |-> E_value, v |-> 0]
      [] kind = "shape" ->
           LET ks == {k \in DOMAIN StandardWaveformMapping :
                        Word(StandardWaveformMapping[k]) = tok}
           IN  IF ks = {} THEN [err |-> E_index, v |-> ""]
               ELSE [err |-> E_none, v |-> CHOOSE k \in ks : TRUE]
      [] kind = "enabled" -> [err |-> E_none, v |-> tok = Word("ON")]
      [] kind = "load" ->
           IF tok = Word("HZ") THEN [err |-> E_none, v |-> 0]
           ELSE IF tok.k = "q" THEN [err |-> E_none, v |-> tok.n]
           ELSE [err |-> E_value, v |-> 0]
      [] OTHER -> [err |-> E_none, v |-> tok.w]

\* The cast_option functions handed to the cached setter: c.kind names the
\* function and c.std is the std_wave its closure captured.
\* Faulty variant: the mode write of function mode always names the sine
\* shape instead of the captured std_wave.
CastOptionIgnoringShape(c, value) ==
    CASE c.kind = "mode" ->
           [err |-> E_none, v |-> IF value = "arbitrary" THEN "ARB" ELSE "SINE"]
      [] c.kind = "clock" ->
           [err |-> E_none, v |-> IF value = "internal" THEN "INT" ELSE "EXT"]
      [] c.kind = "shape" ->
           IF value \in DOMAIN StandardWaveformMapping
           THEN [err |-> E_none, v |-> StandardWaveformMapping[value]]
           ELSE [err |-> E_key, v |-> ""]
      [] OTHER -> [err |-> E_none, v |-> value]

CastOption(c, value) ==
    CASE c.kind = "mode" ->
           [err |-> E_none, v |-> IF value = "arbitrary" THEN "ARB" ELSE c.std]
      [] c.kind = "clock" ->
           [err |-> E_none, v |-> IF value = "internal" THEN "INT" ELSE "EXT"]
      [] c.kind = "shape" ->
           IF value \in DOMAIN StandardWaveformMapping
           THEN [err |-> E_none, v |-> StandardWaveformMapping[value]]
           ELSE [err |-> E_key, v |-> ""]
      [] c.kind = "enabled" ->
           [err |-> E_none, v |-> IF value THEN "ON" ELSE "OFF"]
      [] OTHER -> [err |-> E_none, v |-> value]

IdCast == [kind |-> "id", std |-> ""]

\* The text "{}".format gives for a cast option value.
Fmt(c, v) ==
    IF c.kind = "id" THEN ToString(v)
    ELSE IF c.kind = "load" THEN (IF v = 0 THEN "HZ" ELSE ToString(v))
    ELSE v

\* ------------------------------------------------------------- transport
_ask(s, ch, command, text) ==
    [s EXCEPT !.io = Append(@, [kind |-> "ask", text |-> text, ch |-> ch,
                                cmd |-> command, opt |-> ""]),
              !.ret = DevReply(s.dev, ch, command)]

\* In simulation the write is dropped by the transport layer; otherwise the
\* instrument receives it and stores it, unless it rejects it (s.acc). On a
\* faulty transport (s.faulty) the write that follows s.wbudget delivered
\* writes raises in the transport and delivers nothing.
_write(s, ch, command, opt, arg, text) ==
    IF s.sim THEN s
    ELSE IF s.faulty /\ s.wbudget = 0
    THEN Raise([s EXCEPT !.io = Append(@, [kind |-> "fault", text |-> text,
                                           ch |-> ch, cmd |-> command,
                                           opt |-> opt, arg |-> arg])],
               E_io)
    ELSE [s EXCEPT !.io = Append(@, [kind |-> "write", text |-> text, ch |-> ch,
                                     cmd |-> command, opt |-> opt, arg |-> arg]),
                   !.dev = IF s.acc
                           THEN [@ EXCEPT ![ch][opt] = DevStore(opt, arg)]
                           ELSE @,
                   !.wbudget = IF s.faulty THEN @ - 1 ELSE @]

\* -------------------------------------------------------- cached accessor
\* Faulty variant: the channel number is not incremented.
PrependWithZeroBasedIndex(command, index) ==
    IF index < 0 THEN command
    ELSE "C" \o ToString(index) \o ":" \o command

_prepend_command_with_channel(command, index) ==
    IF index < 0 THEN command
    ELSE "C" \o ToString(index + 1) \o ":" \o command

\* A Python list index: a negative index counts from the end.
ListIndex(index) == IF index < 0 THEN NumChannels + index ELSE index

_get_property_value_by_tag(s, tag, index) == s.val[tag][ListIndex(index)]

\* Faulty variant: the value is assigned to the slot of every channel.
SetPropertyForEveryChannel(s, tag, value, index) ==
    [s EXCEPT !.val[tag] = [c \in Chan |-> value]]

_set_property_value_by_tag(s, tag, value, index) ==
    [s EXCEPT !.val[tag][ListIndex(index)] = value]

\* Faulty variant: the reply that was read marks every entry of the channel
\* valid.
StoreReadValidatingChannel(asked, tag, index, cast) ==
    IF cast.err # E_none THEN Raise(asked, cast.err)
    ELSE [_set_property_value_by_tag(asked, tag, cast.v, index)
            EXCEPT !.valid = [t \in Tags |->
                                [@[t] EXCEPT ![index] = TRUE]],
                   !.ret = cast.v]

\* Stores a value that was read into the cache entry and returns it.
StoreRead(asked, tag, index, cast) ==
    IF cast.err # E_none THEN Raise(asked, cast.err)
    ELSE [_set_property_value_by_tag(asked, tag, cast.v, index)
            EXCEPT !.valid[tag][index] = TRUE, !.ret = cast.v]

\* Faulty variant: simulation is not consulted, an invalid entry is queried.
GetOptionIgnoringSimulation(s, command, option, channel, tag, cast_cache) ==
    IF Failed(s) THEN s
    ELSE IF ~s.valid[tag][channel]
    THEN Only({
           Only({ IF resp.err # E_none THEN Raise(asked, resp.err)
                  ELSE IF Str(IF option = "" THEN command ELSE option)
                              \notin DOMAIN resp.opts
                  THEN Raise(asked, E_unexpected)
                  ELSE StoreRead(asked, tag, channel,
                           CastCache(cast_cache,
                               TokenOf(resp.opts[Str(IF option = "" THEN command
                                                     ELSE option)])))
                  : resp \in {_parse_scpi_response_to_dict(asked.ret)} })
           : asked \in {_ask(s, channel, command,
                             _prepend_command_with_channel(command, channel)
                                 \o "?")} })
    ELSE Return(s, _get_property_value_by_tag(s, tag, channel))

\* Faulty variant: the validity flag is not consulted, every get queries.
GetOptionAlwaysQuerying(s, command, option, channel, tag, cast_cache) ==
    IF Failed(s) THEN s
    ELSE IF ~s.sim
    THEN Only({
           Only({ IF resp.err # E_none THEN Raise(asked, resp.err)
                  ELSE IF Str(IF option = "" THEN command ELSE option)
                              \notin DOMAIN resp.opts
                  THEN Raise(asked, E_unexpected)
                  ELSE StoreRead(asked, tag, channel,
                           CastCache(cast_cache,
                               TokenOf(resp.opts[Str(IF option = "" THEN command
                                                     ELSE option)])))
                  : resp \in {_parse_scpi_response_to_dict(asked.ret)} })
           : asked \in {_ask(s, channel, command,
                             _prepend_command_with_channel(command, channel)
                                 \o "?")} })
    ELSE Return(s, _get_property_value_by_tag(s, tag, channel))

\* Faulty variant: the entry is marked valid as soon as the reply is parsed.
GetOptionValidatingEarly(s, command, option, channel, tag, cast_cache) ==
    IF Failed(s) THEN s
    ELSE IF ~s.sim /\ ~s.valid[tag][channel]
    THEN Only({
           Only({ IF resp.err # E_none THEN Raise(asked, resp.err)
                  ELSE IF Str(IF option = "" THEN command ELSE option)
                              \notin DOMAIN resp.opts
                  THEN Raise([asked EXCEPT !.valid[tag][channel] = TRUE],
                             E_unexpected)
                  ELSE StoreRead(asked, tag, channel,
                           CastCache(cast_cache,
                               TokenOf(resp.opts[Str(IF option = "" THEN command
                                                     ELSE option)])))
                  : resp \in {_parse_scpi_response_to_dict(asked.ret)} })
           : asked \in {_ask(s, channel, command,
                             _prepend_command_with_channel(command, channel)
                                 \o "?")} })
    ELSE Return(s, _get_property_value_by_tag(s, tag, channel))

_get_scpi_option_cached(s, command, option, channel, tag, cast_cache) ==
    IF Failed(s) THEN s
    ELSE IF ~s.sim /\ ~s.valid[tag][channel]
    THEN Only({
           Only({ IF resp.err # E_none THEN Raise(asked, resp.err)
                  ELSE IF Str(IF option = "" THEN command ELSE option)
                              \notin DOMAIN resp.opts
                  THEN Raise(asked, E_unexpected)
                  ELSE StoreRead(asked, tag, channel,
                           CastCache(cast_cache,
                               TokenOf(resp.opts[Str(IF option = "" THEN command
                                                     ELSE option)])))
                  : resp \in {_parse_scpi_response_to_dict(asked.ret)} })
           : asked \in {_ask(s, channel, command,
                             _prepend_command_with_channel(command, channel)
                                 \o "?")} })
    ELSE Return(s, _get_property_value_by_tag(s, tag, channel))

\* The text of the write: "<command> <value>" or "<command> <option>, <value>".
CommandWithOption(command, option, index, text) ==
    IF option = ""
    THEN _prepend_command_with_channel(command, index) \o " " \o text
    ELSE _prepend_command_with_channel(command, index) \o " " \o option
             \o ", " \o text

\* Faulty variant: the entry receives the device-encoded form of the value.
SetOptionStoringEncoded(s, value, command, option, channel, tag, cast_option) ==
    IF Failed(s) THEN s
    ELSE Only({
           IF cast.err # E_none THEN Raise(s, cast.err)
           ELSE [_set_property_value_by_tag(
                     _write(s, channel, command,
                            IF option = "" THEN command ELSE option, cast.v,
                            CommandWithOption(command, option, channel,
                                              Fmt(cast_option, cast.v))),
                     tag, cast.v, channel)
                   EXCEPT !.valid[tag][channel] = TRUE, !.ret = NoneVal]
           : cast \in {CastOption(cast_option, value)} })

\* Faulty variant: the write is left out when the valid entry already holds
\* the value.
SetOptionCoalescing(s, value, command, option, channel, tag, cast_option) ==
    IF Failed(s) THEN s
    ELSE IF s.valid[tag][channel]
            /\ _get_property_value_by_tag(s, tag, channel) = value
    THEN Return(s, NoneVal)
    ELSE Only({
           IF cast.err # E_none THEN Raise(s, cast.err)
           ELSE [_set_property_value_by_tag(
                     _write(s, channel, command,
                            IF option = "" THEN command ELSE option, cast.v,
                            CommandWithOption(command, option, channel,
                                              Fmt(cast_option, cast.v))),
                     tag, value, channel)
                   EXCEPT !.valid[tag][channel] = TRUE, !.ret = NoneVal]
           : cast \in {CastOption(cast_option, value)} })

\* Faulty variant: the entry is stored and marked valid before the write
\* goes out.
SetOptionStoringFirst(s, value, command, option, channel, tag, cast_option) ==
    IF Failed(s) THEN s
    ELSE Only({
           IF cast.err # E_none THEN Raise(s, cast.err)
           ELSE _write([_set_property_value_by_tag(s, tag, value, channel)
                          EXCEPT !.valid[tag][channel] = TRUE,
                                 !.ret = NoneVal],
                       channel, command,
                       IF option = "" THEN command ELSE option, cast.v,
                       CommandWithOption(command, option, channel,
                                         Fmt(cast_option, cast.v)))
           : cast \in {CastOption(cast_option, value)} })

\* Faulty variant: an entry that is valid already keeps its value.
StoreWrittenOnce(w, tag, value, channel) ==
    IF Failed(w) THEN w
    ELSE IF w.valid[tag][channel] THEN [w EXCEPT !.ret = NoneVal]
    ELSE [_set_property_value_by_tag(w, tag, value, channel)
            EXCEPT !.valid[tag][channel] = TRUE, !.ret = NoneVal]

\* What follows the write: nothing when the transport raised, otherwise
\* the value is stored and the entry marked valid.
StoreWritten(w, tag, value, channel) ==
    IF Failed(w) THEN w
    ELSE [_set_property_value_by_tag(w, tag, value, channel)
            EXCEPT !.valid[tag][channel] = TRUE, !.ret = NoneVal]

_set_scpi_option_cached(s, value, command, option, channel, tag, cast_option) ==
    IF Failed(s) THEN s
    ELSE Only({
           IF cast.err # E_none THEN Raise(s, cast.err)
           ELSE StoreWritten(
                  _write(s, channel, command,
                         IF option = "" THEN command ELSE option, cast.v,
                         CommandWithOption(command, option, channel,
                                           Fmt(cast_option, cast.v))),
                  tag, value, channel)
           : cast \in {CastOption(cast_option, value)} })

\* ---------------------------------------------------------------- utility
\* Set in __init__: "Not currently supported on SDG2000X and SDG1000X".
_supports_cmr_query == FALSE

\* The messages of the error codes 0 .. 14.
ErrorMessages ==
    <<"No error", "Unrecognized command/query header", "Invalid character",
      "Invalid separator", "Missing parameter", "Unrecognized keyword",
      "String error", "Parameter can't allowed", "Command String Too Long",
      "Query cannot allowed", "Missing Query mask", "Invalid parameter",
      "Parameter syntax error", "Filename too long", "Directory not exist">>

\* int(self._ask("CMR?").split(' ')[1]) and the lookup of its message.
ReadErrorCode(asked) ==
    Only({ IF Len(pieces) < 2 THEN Raise(asked, E_index)
           ELSE IF TokenOf(pieces[2]).k # "q" THEN Raise(asked, E_value)
           ELSE IF TokenOf(pieces[2]).n + 1 \notin DOMAIN ErrorMessages
           THEN Raise(asked, E_key)
           ELSE Return(asked,
                       [code |-> TokenOf(pieces[2]).n,
                        msg |-> ErrorMessages[TokenOf(pieces[2]).n + 1]])
           : pieces \in {SplitAll(asked.ret, SP)} })

\* Faulty variant: the query is sent whether or not the model supports it.
ErrorQueryIgnoringSupport(s) ==
    IF Failed(s) THEN s
    ELSE IF ~s.sim THEN ReadErrorCode(_ask(s, NoChan, "CMR", "CMR?"))
    ELSE Return(s, [code |-> 0, msg |-> "No error"])

_utility_error_query(s) ==
    IF Failed(s) THEN s
    ELSE IF ~_supports_cmr_query
    THEN Return(s, [code |-> 0, msg |-> "Not supported"])
    ELSE IF ~s.sim THEN ReadErrorCode(_ask(s, NoChan, "CMR", "CMR?"))
    ELSE Return(s, [code |-> 0, msg |-> "No error"])

\* ------------------------------------------------------- output settings
_get_output_operation_mode(s, index) ==
    IF Failed(s) THEN s ELSE Return(s, s.opmode[index])

\* A command sent as it is, outside the cached accessors: dropped in
\* simulation, raised by a faulty transport, delivered otherwise.
SendCommand(s, ch, command, opt, arg, text) ==
    IF Failed(s) \/ s.sim THEN s
    ELSE IF s.faulty /\ s.wbudget = 0
    THEN Raise([s EXCEPT !.io = Append(@, [kind |-> "fault", text |-> text,
                                           ch |-> ch, cmd |-> command,
                                           opt |-> opt, arg |-> arg])],
               E_io)
    ELSE [s EXCEPT !.io = Append(@, [kind |-> "write", text |-> text, ch |-> ch,
                                     cmd |-> command, opt |-> opt, arg |-> arg]),
                   !.wbudget = IF s.faulty THEN @ - 1 ELSE @]

\* driver_operation.invalidate_all_attributes() of ivi.Driver: every cache
\* flag is dropped.
invalidate_all_attributes(s) ==
    [s EXCEPT !.valid = [t \in Tags |-> [c \in Chan \cup {NoChan} |-> FALSE]]]

\* Faulty variant: simulation is not consulted.
ResetIgnoringSimulation(s) ==
    Return(invalidate_all_attributes(
             [s EXCEPT !.io = Append(@, [kind |-> "write", text |-> "*RST",
                                         ch |-> NoChan, cmd |-> "*RST",
                                         opt |-> "", arg |-> NoneVal])]),
           NoneVal)

\* What the instrument does on *RST is outside the driver: its registers
\* are left as they are.
_utility_reset(s) ==
    IF ~s.sim
    THEN Return(invalidate_all_attributes(
                  SendCommand(s, NoChan, "*RST", "", NoneVal, "*RST")),
                NoneVal)
    ELSE Return(s, NoneVal)

\* siglentSDG2000X._utility_reset is the same text.
SDG2000X_utility_reset(s) ==
    IF ~s.sim
    THEN Return(invalidate_all_attributes(
                  SendCommand(s, NoChan, "*RST", "", NoneVal, "*RST")),
                NoneVal)
    ELSE Return(s, NoneVal)

OperationMode == {"continuous", "burst"}

TriggerSources == {"internal", "external", "software"}

\* '{}S'.format(periods) with periods = 1.0 for rate 0, else 1.0 / rate.
PeriodText(rate) ==
    CASE rate \in {0, 1} -> "1.0"
      [] rate = 2 -> "0.5"
      [] rate = 4 -> "0.25"
      [] OTHER -> "1.0/" \o ToString(rate)

\* The trigger commands of a channel in burst mode, one write each.
TriggerCommands(w, index) ==
    CASE w.burst.trigger[index] = "external" ->
           SendCommand(w, index, "BTWV", "TRSR", "EXT",
                       _prepend_command_with_channel("BTWV TRSR,EXT", index))
      [] w.burst.trigger[index] = "internal" ->
           SendCommand(
             SendCommand(w, index, "BTWV", "TRSR", "INT",
                         _prepend_command_with_channel("BTWV TRSR,INT", index)),
             index, "BTWV", "PRD", PeriodText(w.burst.rate),
             _prepend_command_with_channel(
               "BTWV PRD," \o PeriodText(w.burst.rate) \o "S", index))
      [] w.burst.trigger[index] = "software" ->
           SendCommand(w, index, "BTWV", "TRSR", "MAN",
                       _prepend_command_with_channel("BTWV TRSR,MAN", index))
      [] OTHER -> w

\* Faulty variant: the trigger commands go out before the burst command.
UpdateBurstTriggerFirst(s, index) ==
    IF Failed(s) THEN s
    ELSE IF s.opmode[index] \in {"continuous", ""}
    THEN SendCommand(s, index, "BTWV", "STATE", "OFF",
                     _prepend_command_with_channel("BTWV STATE, OFF", index))
    ELSE IF s.opmode[index] = "burst"
    THEN SendCommand(TriggerCommands(s, index), index, "BTWV", "STATE", "ON",
                     _prepend_command_with_channel(
                       "BTWV STATE, ON, GATE_NCYC, NCYC, TIME, "
                           \o ToString(s.burst.count[index]), index))
    ELSE Raise(s, E_unsupported)

_update_burst_config(s, index) ==
    IF Failed(s) THEN s
    ELSE IF s.opmode[index] \in {"continuous", ""}
    THEN SendCommand(s, index, "BTWV", "STATE", "OFF",
                     _prepend_command_with_channel("BTWV STATE, OFF", index))
    ELSE IF s.opmode[index] = "burst"
    THEN TriggerCommands(
           SendCommand(s, index, "BTWV", "STATE", "ON",
                       _prepend_command_with_channel(
                         "BTWV STATE, ON, GATE_NCYC, NCYC, TIME, "
                             \o ToString(s.burst.count[index]), index)),
           index)
    ELSE Raise(s, E_unsupported)

_set_output_operation_mode(s, index, value) ==
    IF Failed(s) THEN s
    ELSE IF value \notin OperationMode THEN Raise(s, E_unsupported)
    ELSE _update_burst_config([s EXCEPT !.opmode[index] = value,
                                        !.ret = NoneVal], index)

_set_output_trigger_source(s, index, value) ==
    IF Failed(s) THEN s
    ELSE IF value \notin TriggerSources THEN Raise(s, E_unsupported)
    ELSE _update_burst_config([s EXCEPT !.burst.trigger[index] = value,
                                        !.ret = NoneVal], index)

_set_output_burst_count(s, index, value) ==
    IF Failed(s) THEN s
    ELSE _update_burst_config([s EXCEPT !.burst.count[index] = value,
                                        !.ret = NoneVal], index)

\* Faulty variant: only the first channel's configuration is issued again.
SetTriggerRateFirstChannelOnly(s, value) ==
    IF Failed(s) THEN s
    ELSE _update_burst_config([s EXCEPT !.burst.rate = value,
                                        !.ret = NoneVal], 0)

_set_internal_trigger_rate(s, value) ==
    IF Failed(s) THEN s
    ELSE _update_burst_config(
           _update_burst_config([s EXCEPT !.burst.rate = value,
                                          !.ret = NoneVal], 0),
           1)

\* The body of the loop of _send_software_trigger for channel i.
TriggerChannel(s, i) ==
    IF s.opmode[i] = "burst" /\ s.burst.trigger[i] = "software"
    THEN SendCommand(s, i, "BTWV", "MTRIG", NoneVal,
                     _prepend_command_with_channel("BTWV MTRIG", i))
    ELSE s

\* Faulty variant: every channel in burst mode is triggered.
SendTriggerToBurstChannels(s) ==
    Only({ IF a.opmode[1] = "burst"
           THEN SendCommand(a, 1, "BTWV", "MTRIG", NoneVal,
                            _prepend_command_with_channel("BTWV MTRIG", 1))
           ELSE a
           : a \in {IF s.opmode[0] = "burst"
                    THEN SendCommand(s, 0, "BTWV", "MTRIG", NoneVal,
                                     _prepend_command_with_channel("BTWV MTRIG",
                                                                   0))
                    ELSE s} })

_send_software_trigger(s) ==
    IF Failed(s) THEN s
    ELSE Return(TriggerChannel(TriggerChannel(s, 0), 1), NoneVal)

_get_output_enabled(s, index) ==
    _get_scpi_option_cached(s, "OUTP", "", index, T_enabled, "enabled")

_set_output_enabled(s, index, value) ==
    _set_scpi_option_cached(s, value, "OUTP", "", index, T_enabled,
                            [kind |-> "enabled", std |-> ""])

_get_output_impedance(s, index) ==
    _get_scpi_option_cached(s, "OUTP", "LOAD", index, T_load, "load")

_set_output_impedance(s, index, value) ==
    _set_scpi_option_cached(s, value, "OUTP", "LOAD", index, T_load,
                            [kind |-> "load", std |-> ""])

_get_output_mode(s, index) ==
    _get_scpi_option_cached(s, "BSWV", "WVTP", index, T_mode, "mode")

SampleClockSource == {"internal", "external"}

_get_output_reference_clock_source(s, index) ==
    _get_scpi_option_cached(s, "ROSC", "", NoChan, T_clock, "clock")

\* Faulty variant: the reference clock is written and cached per channel.
SetReferenceClockPerChannel(s, index, value) ==
    IF Failed(s) THEN s
    ELSE IF value \notin SampleClockSource THEN Raise(s, E_unsupported)
    ELSE _set_scpi_option_cached(s, value, "ROSC", "", index, T_clock,
                                 [kind |-> "clock", std |-> ""])

_set_output_reference_clock_source(s, index, value) ==
    IF Failed(s) THEN s
    ELSE IF value \notin SampleClockSource THEN Raise(s, E_unsupported)
    ELSE _set_scpi_option_cached(s, value, "ROSC", "", NoChan, T_clock,
                                 [kind |-> "clock", std |-> ""])

\* ------------------------------------- common methods for both wave modes
\* tag is the cache tag the method infers from the name of its caller.
_get_output_common_waveform_amplitude(s, index, tag) ==
    _get_scpi_option_cached(s, "BSWV", "AMP", index, tag, "float")

_set_output_common_waveform_amplitude(s, index, value, tag) ==
    IF Failed(s) THEN s
    ELSE IF value <= 0 THEN Raise(s, E_invalid)
    ELSE _set_scpi_option_cached(s, value, "BSWV", "AMP", index, tag, IdCast)

_get_output_common_waveform_dc_offset(s, index, tag) ==
    _get_scpi_option_cached(s, "BSWV", "OFST", index, tag, "float")

_set_output_common_waveform_dc_offset(s, index, value, tag) ==
    _set_scpi_option_cached(s, value, "BSWV", "OFST", index, tag, IdCast)

_get_output_common_waveform_start_phase(s, index, tag) ==
    _get_scpi_option_cached(s, "BSWV", "PHSE", index, tag, "float")

_set_output_common_waveform_start_phase(s, index, value, tag) ==
    IF Failed(s) THEN s
    ELSE IF value < 0 \/ value > 360 THEN Raise(s, E_invalid)
    ELSE _set_scpi_option_cached(s, value, "BSWV", "PHSE", index, tag, IdCast)

_get_output_common_waveform_frequency(s, index, tag) ==
    _get_scpi_option_cached(s, "BSWV", "FRQ", index, tag, "float")

_set_output_common_waveform_frequency(s, index, value, tag) ==
    IF Failed(s) THEN s
    ELSE IF value <= 0 THEN Raise(s, E_invalid)
    ELSE _set_scpi_option_cached(s, value, "BSWV", "FRQ", index, tag, IdCast)

\* ------------------------------------------------ standard waveform mode
_is_in_function_mode(s, index) ==
    Only({ IF Failed(m) THEN m ELSE Return(m, m.ret = "function")
           : m \in {_get_output_mode(s, index)} })

\* The shadow branch of a mode-dependent setter: self._<tag>[index] = value.
\* Faulty variant: a value kept for the other mode is marked valid.
SetShadowValidating(m, tag, index, value) ==
    [m EXCEPT !.val[tag][index] = value, !.valid[tag][index] = TRUE,
              !.ret = NoneVal]

SetShadow(m, tag, index, value) ==
    [m EXCEPT !.val[tag][index] = value, !.ret = NoneVal]

_get_output_standard_waveform_amplitude(s, index) ==
    Only({ IF Failed(m) THEN m
        ELSE IF ~m.ret THEN Return(m, m.val[T_amp][index])
        ELSE _get_output_common_waveform_amplitude(m, index, T_amp)
           : m \in {_is_in_function_mode(s, index)} })

_set_output_standard_waveform_amplitude(s, index, value) ==
    Only({ IF Failed(m) THEN m
        ELSE IF ~m.ret THEN SetShadow(m, T_amp, index, value)
        ELSE _set_output_common_waveform_amplitude(m, index, value, T_amp)
           : m \in {_is_in_function_mode(s, index)} })

_get_output_standard_waveform_dc_offset(s, index) ==
    Only({ IF Failed(m) THEN m
        ELSE IF ~m.ret THEN Return(m, m.val[T_ofst][index])
        ELSE _get_output_common_waveform_dc_offset(m, index, T_ofst)
           : m \in {_is_in_function_mode(s, index)} })

\* Outside function mode the setter assigns to
\* self._output_common_waveform_dc_offset, an attribute that does not exist.
_set_output_standard_waveform_dc_offset(s, index, value) ==
    Only({ IF Failed(m) THEN m
        ELSE IF ~m.ret THEN Raise(m, E_attribute)
        ELSE _set_output_common_waveform_dc_offset(m, index, value, T_ofst)
           : m \in {_is_in_function_mode(s, index)} })

_get_output_standard_waveform_duty_cycle_high(s, index) ==
    Only({ IF Failed(m) THEN m
        ELSE IF ~m.ret THEN Return(m, m.val[T_duty][index])
        ELSE _get_scpi_option_cached(m, "BSWV", "DUTY", index, T_duty, "float")
           : m \in {_is_in_function_mode(s, index)} })

\* Faulty variant: the bounds 0 and 100 are rejected too.
DutySetterExcludingBounds(s, index, value) ==
    IF Failed(s) THEN s
    ELSE IF value <= 0 \/ value >= 100 THEN Raise(s, E_unsupported)
    ELSE
      Only({ IF Failed(m) THEN m
             ELSE IF ~m.ret THEN SetShadow(m, T_duty, index, value)
             ELSE _set_scpi_option_cached(m, value, "BSWV", "DUTY", index,
                                          T_duty, IdCast)
             : m \in {_is_in_function_mode(s, index)} })

_set_output_standard_waveform_duty_cycle_high(s, index, value) ==
    IF Failed(s) THEN s
    ELSE IF value < 0 \/ value > 100 THEN Raise(s, E_unsupported)
    ELSE
      Only({ IF Failed(m) THEN m
             ELSE IF ~m.ret THEN SetShadow(m, T_duty, index, value)
             ELSE _set_scpi_option_cached(m, value, "BSWV", "DUTY", index,
                                          T_duty, IdCast)
             : m \in {_is_in_function_mode(s, index)} })

_get_output_standard_waveform_start_phase(s, index) ==
    Only({ IF Failed(m) THEN m
        ELSE IF ~m.ret THEN Return(m, m.val[T_phase][index])
        ELSE _get_output_common_waveform_start_phase(m, index, T_phase)
           : m \in {_is_in_function_mode(s, index)} })

_set_output_standard_waveform_start_phase(s, index, value) ==
    Only({ IF Failed(m) THEN m
        ELSE IF ~m.ret THEN SetShadow(m, T_phase, index, value)
        ELSE _set_output_common_waveform_start_phase(m, index, value, T_phase)
           : m \in {_is_in_function_mode(s, index)} })

_get_output_standard_waveform_frequency(s, index) ==
    Only({ IF Failed(m) THEN m
        ELSE IF ~m.ret THEN Return(m, m.val[T_freq][index])
        ELSE _get_output_common_waveform_frequency(m, index, T_freq)
           : m \in {_is_in_function_mode(s, index)} })

_set_output_standard_waveform_frequency(s, index, value) ==
    Only({ IF Failed(m) THEN m
        ELSE IF ~m.ret THEN SetShadow(m, T_freq, index, value)
        ELSE _set_output_common_waveform_frequency(m, index, value, T_freq)
           : m \in {_is_in_function_mode(s, index)} })

_get_output_standard_waveform_waveform(s, index) ==
    Only({ IF Failed(m) THEN m
        ELSE IF ~m.ret THEN Return(m, m.val[T_shape][index])
        ELSE _get_scpi_option_cached(m, "BSWV", "WVTP", index, T_shape, "shape")
           : m \in {_is_in_function_mode(s, index)} })

_set_output_standard_waveform_waveform(s, index, value) ==
    Only({ IF Failed(m) THEN m
        ELSE IF ~m.ret THEN SetShadow(m, T_shape, index, value)
        ELSE _set_scpi_option_cached(m, value, "BSWV", "WVTP", index, T_shape,
                                     [kind |-> "shape", std |-> ""])
           : m \in {_is_in_function_mode(s, index)} })

_ensure_function_mode_parameters_cached(s, index) ==
    Only({ IF Failed(m) THEN m
        ELSE IF ~m.ret THEN Return(m, NoneVal)
        ELSE _get_output_standard_waveform_waveform(
               _get_output_standard_waveform_start_phase(
                 _get_output_standard_waveform_frequency(
                   _get_output_standard_waveform_duty_cycle_high(
                     _get_output_standard_waveform_dc_offset(
                       _get_output_standard_waveform_amplitude(m, index),
                       index), index), index), index), index)
           : m \in {_is_in_function_mode(s, index)} })

\* One step of a restore: the setter is called with the attribute's value.
RestoreWaveform(s, index) ==
    _set_output_standard_waveform_waveform(s, index, s.val[T_shape][index])

\* Faulty variant: the amplitude is restored from the gain attribute.
RestoreAmplitudeFromGain(s, index) ==
    _set_output_standard_waveform_amplitude(s, index, s.val[T_gain][index])

RestoreAmplitude(s, index) ==
    _set_output_standard_waveform_amplitude(s, index, s.val[T_amp][index])

RestoreFrequency(s, index) ==
    _set_output_standard_waveform_frequency(s, index, s.val[T_freq][index])

RestoreDcOffset(s, index) ==
    _set_output_standard_waveform_dc_offset(s, index, s.val[T_ofst][index])

RestoreStartPhase(s, index) ==
    _set_output_standard_waveform_start_phase(s, index, s.val[T_phase][index])

RestoreDutyCycle(s, index) ==
    _set_output_standard_waveform_duty_cycle_high(s, index,
                                                  s.val[T_duty][index])

_restore_function_mode_parameters_from_cache(s, index) ==
    RestoreDutyCycle(
      RestoreStartPhase(
        RestoreDcOffset(
          RestoreFrequency(
            RestoreAmplitude(
              RestoreWaveform(s, index), index), index), index), index), index)

\* ------------------------------------------------ arbitrary waveform mode
_is_in_arbitrary_mode(s, index) ==
    Only({ IF Failed(m) THEN m ELSE Return(m, m.ret = "arbitrary")
           : m \in {_get_output_mode(s, index)} })

_get_output_arbitrary_gain(s, index) ==
    Only({ IF Failed(m) THEN m
        ELSE IF ~m.ret THEN Return(m, m.val[T_gain][index])
        ELSE _get_output_common_waveform_amplitude(m, index, T_gain)
           : m \in {_is_in_arbitrary_mode(s, index)} })

_set_output_arbitrary_gain(s, index, value) ==
    Only({ IF Failed(m) THEN m
        ELSE IF ~m.ret THEN SetShadow(m, T_gain, index, value)
        ELSE _set_output_common_waveform_amplitude(m, index, value, T_gain)
           : m \in {_is_in_arbitrary_mode(s, index)} })

_get_output_arbitrary_offset(s, index) ==
    Only({ IF Failed(m) THEN m
        ELSE IF ~m.ret THEN Return(m, m.val[T_aofst][index])
        ELSE _get_output_common_waveform_dc_offset(m, index, T_aofst)
           : m \in {_is_in_arbitrary_mode(s, index)} })

_set_output_arbitrary_offset(s, index, value) ==
    Only({ IF Failed(m) THEN m
        ELSE IF ~m.ret THEN SetShadow(m, T_aofst, index, value)
        ELSE _set_output_common_waveform_dc_offset(m, index, value, T_aofst)
           : m \in {_is_in_arbitrary_mode(s, index)} })

\* Outside arbitrary mode the getter and the setter use
\* self._output_arbitrary_waveform_frequency, an attribute that does not
\* exist.
_get_output_arbitrary_frequency(s, index) ==
    Only({ IF Failed(m) THEN m
        ELSE IF ~m.ret THEN Raise(m, E_attribute)
        ELSE _get_output_common_waveform_frequency(m, index, T_afreq)
           : m \in {_is_in_arbitrary_mode(s, index)} })

\* Faulty variant: the sample-rate entries are left as they are.
FrequencyWasSetKeepingSampleRate(w, index) ==
    IF Failed(w) THEN w
    ELSE [w EXCEPT !.fmode[index] = "frequency", !.ret = NoneVal]

\* The end of _set_output_arbitrary_frequency, after the value is set.
FrequencyWasSet(w, index) ==
    IF Failed(w) THEN w
    ELSE [w EXCEPT !.fmode[index] = "frequency",
                   !.valid[T_srate][index] = FALSE,
                   !.valid[T_srate2][index] = FALSE,
                   !.ret = NoneVal]

_set_output_arbitrary_frequency(s, channel, value) ==
    FrequencyWasSet(
      Only({ IF Failed(m) THEN m
             ELSE IF ~m.ret THEN Raise(m, E_attribute)
             ELSE _set_output_common_waveform_frequency(m, channel, value,
                                                        T_afreq)
             : m \in {_is_in_arbitrary_mode(s, channel)} }),
      channel)

\* Abstract in this class: the accessor of the selected waveform is the
\* cached accessor on the ARWV command, option NAME.
_get_output_arbitrary_waveform(s, index) ==
    _get_scpi_option_cached(s, "ARWV", "NAME", index, T_awfm, "name")

\* Not defined in this class: the cached accessors on the SRATE command,
\* option VALUE; the setter records that the sample rate was set last.
_get_output_arbitrary_sample_rate(s, index) ==
    _get_scpi_option_cached(s, "SRATE", "VALUE", index, T_srate, "float")

SampleRateWasSet(w, index) ==
    IF Failed(w) THEN w
    ELSE [w EXCEPT !.fmode[index] = "sample_rate", !.ret = NoneVal]

_set_output_arbitrary_sample_rate(s, index, value) ==
    SampleRateWasSet(
      _set_scpi_option_cached(s, value, "SRATE", "VALUE", index, T_srate,
                              IdCast),
      index)

\* Not defined in this class: the setter of the TrueArb/DDS sub-mode is the
\* cached setter on the SRATE command, option MODE; the frequency and the
\* sample rate read under the former sub-mode are invalidated.
\* Faulty variant: the frequency entry is left as it is.
SubModeWasSetKeepingFrequency(w, index) ==
    IF Failed(w) THEN w
    ELSE [w EXCEPT !.valid[T_srate][index] = FALSE, !.ret = NoneVal]

SubModeWasSet(w, index) ==
    IF Failed(w) THEN w
    ELSE [w EXCEPT !.valid[T_afreq][index] = FALSE,
                   !.valid[T_srate][index] = FALSE,
                   !.ret = NoneVal]

_set_output_arbitrary_sub_mode(s, index, value) ==
    SubModeWasSet(
      _set_scpi_option_cached(s, value, "SRATE", "MODE", index, T_submode,
                              [kind |-> "name", std |-> ""]),
      index)

\* Faulty variant: the frequency is not read before the switch.
EnsureArbitraryWithoutFrequency(s, index) ==
    Only({ IF Failed(m) THEN m
        ELSE IF ~m.ret THEN Return(m, NoneVal)
        ELSE _get_output_arbitrary_waveform(
               _get_output_arbitrary_offset(
                 _get_output_arbitrary_gain(m, index), index), index)
           : m \in {_is_in_arbitrary_mode(s, index)} })

_ensure_arbitrary_mode_parameters_cached(s, index) ==
    Only({ IF Failed(m) THEN m
        ELSE IF ~m.ret THEN Return(m, NoneVal)
        ELSE _get_output_arbitrary_frequency(
               _get_output_arbitrary_waveform(
                 _get_output_arbitrary_offset(
                   _get_output_arbitrary_gain(m, index), index), index), index)
           : m \in {_is_in_arbitrary_mode(s, index)} })

RestoreGain(s, index) ==
    _set_output_arbitrary_gain(s, index, s.val[T_gain][index])

RestoreOffset(s, index) ==
    _set_output_arbitrary_offset(s, index, s.val[T_aofst][index])

\* Faulty variant: the frequency is replayed whatever the flag says.
RestoreFrequencyAlways(s, index) ==
    IF Failed(s) THEN s
    ELSE _set_output_arbitrary_frequency(s, index, s.val[T_afreq][index])

RestoreFrequencyOrSampleRate(s, index) ==
    IF Failed(s) THEN s
    ELSE IF s.fmode[index] = "frequency"
    THEN _set_output_arbitrary_frequency(s, index, s.val[T_afreq][index])
    ELSE _set_output_arbitrary_sample_rate(s, index, s.val[T_srate][index])

_restore_arbitrary_mode_parameters_from_cache(s, index) ==
    RestoreFrequencyOrSampleRate(
      RestoreOffset(RestoreGain(s, index), index), index)

\* ------------------------------------------------------ output mode switch
OutputModes == {"function", "arbitrary"}

\* The mode write of _set_output_mode and the restore that follows it.
WriteModeAndRestore(saved, index, value) ==
    IF Failed(saved) THEN saved
    ELSE IF saved.val[T_shape][index] \notin DOMAIN StandardWaveformMapping
    THEN Raise(saved, E_key)
    ELSE IF value = "function"
    THEN _restore_function_mode_parameters_from_cache(
           _set_scpi_option_cached(
             saved, value, "BSWV", "WVTP", index, T_mode,
             [kind |-> "mode",
              std |-> StandardWaveformMapping[saved.val[T_shape][index]]]),
           index)
    ELSE _restore_arbitrary_mode_parameters_from_cache(
           _set_scpi_option_cached(
             saved, value, "BSWV", "WVTP", index, T_mode,
             [kind |-> "mode",
              std |-> StandardWaveformMapping[saved.val[T_shape][index]]]),
           index)

\* Faulty variant: when the transport fails during the switch, the
\* output-mode entry is put back to what it was before the call.
SetOutputModeRollingBack(s, index, value) ==
    Only({ IF r.err = E_io
           THEN [r EXCEPT !.val[T_mode] = s.val[T_mode],
                          !.valid[T_mode] = s.valid[T_mode]]
           ELSE r
           : r \in {Only({ IF Failed(old) THEN old
                           ELSE IF value \notin OutputModes
                           THEN Raise(old, E_unsupported)
                           ELSE WriteModeAndRestore(
                                  _ensure_arbitrary_mode_parameters_cached(
                                    old, index),
                                  index, value)
                           : old \in {_get_output_operation_mode(s, index)} })}
         })

_set_output_mode(s, index, value) ==
    Only({ IF Failed(old) THEN old
           ELSE IF value \notin OutputModes THEN Raise(old, E_unsupported)
           ELSE IF old.ret = "function"
           THEN WriteModeAndRestore(
                  _ensure_function_mode_parameters_cached(old, index),
                  index, value)
           ELSE WriteModeAndRestore(
                  _ensure_arbitrary_mode_parameters_cached(old, index),
                  index, value)
           : old \in {_get_output_operation_mode(s, index)} })

\* -------------------------------------------------------- SDG2000X driver
\* siglentSDG2000X (ivi/siglent/siglentSDG2000X.py) is a driver of its own,
\* not built on the cached accessor: each accessor formats its command
\* itself, decodes with _parse_response_to_dict and keeps the validity of
\* its attribute with the cache flags of ivi.Driver, which are found by the
\* name of the calling accessor and the index.
_get_cache_valid(s, tag, index) == s.valid[tag][index]

_set_cache_valid(s, v, tag, index) == [s EXCEPT !.valid[tag][index] = v]

\* channel_str, command = tuple(header.split(':')) raises ValueError unless
\* the header has exactly one colon; every channel token other than C2 is
\* taken for channel 1.
SDG2000X_parse_header(header, data) ==
    Only({ IF Len(pieces) # 2 THEN ParseError(E_value)
           ELSE [err |-> E_none, has_chan |-> TRUE,
                 chan |-> IF pieces[1] = Str("C2") THEN 2 ELSE 1,
                 cmd |-> pieces[2],
                 data |-> data,
                 opts |-> Options(pieces[2], SplitAll(data, COMMA))]
           : pieces \in {SplitAll(header, COLON)} })

_parse_response_to_dict(resp) ==
    Only({ IF Len(pieces) # 2 THEN ParseError(E_value)
           ELSE SDG2000X_parse_header(pieces[1], pieces[2])
           : pieces \in {Split(resp, SP, 2)} })

\* The query text goes out; the instrument answers for the channel the
\* token C<n> names, and the read times out in the transport when the
\* instrument has no channel n.
SDG2000X_ask(s, n, command, text) ==
    IF n - 1 \in Chan THEN _ask(s, n - 1, command, text)
    ELSE Raise([s EXCEPT !.io = Append(@, [kind |-> "ask", text |-> text,
                                           ch |-> n - 1, cmd |-> command,
                                           opt |-> ""])],
               E_io)

\* A command text goes out that the instrument does not act on.
SDG2000X_write(s, text) ==
    [s EXCEPT !.io = Append(@, [kind |-> "write", text |-> text, ch |-> NoChan,
                                cmd |-> "", opt |-> "", arg |-> NoneVal])]

\* What follows the query of _get_output_mode.
SDG2000X_store_mode(asked, index) ==
    IF Failed(asked) THEN asked
    ELSE Only({
           IF resp.err # E_none THEN Raise(asked, resp.err)
           ELSE IF Str("WVTP") \notin DOMAIN resp.opts
           THEN Raise(asked, E_unexpected)
           ELSE Only({ Return(_set_cache_valid(
                                [asked EXCEPT !.val[T_mode][index] = m],
                                TRUE, T_mode, index), m)
                       : m \in {IF resp.opts[Str("WVTP")] = Str("ARB")
                                THEN "arbitrary" ELSE "function"} })
           : resp \in {_parse_response_to_dict(asked.ret)} })

\* "C{}:BSWV?".format(index): the token carries the 0-based index.
SDG2000X_get_output_mode(s, index) ==
    IF ~s.sim /\ ~_get_cache_valid(s, T_mode, index)
    THEN SDG2000X_store_mode(
           SDG2000X_ask(s, index, "BSWV",
                        "C" \o ToString(index) \o ":BSWV?"),
           index)
    ELSE Return(s, s.val[T_mode][index])

\* The texts written by _set_output_mode are literals: "C{}:fg:state 1" is
\* never formatted and ":fg:state 0" has no channel.
SDG2000X_mode_command(s, value) ==
    IF s.sim THEN s
    ELSE IF value = "function" THEN SDG2000X_write(s, "C{}:fg:state 1")
    ELSE IF value = "arbitrary" THEN SDG2000X_write(s, ":fg:state 0")
    ELSE s

\* Faulty variant: the entries of the other channels keep their validity.
SetModeKeepingOtherChannels(s, index, value) ==
    IF value \notin OutputModes THEN Raise(s, E_unsupported)
    ELSE Return(_set_cache_valid(
                  [SDG2000X_mode_command(s, value)
                     EXCEPT !.val[T_mode][index] = value],
                  TRUE, T_mode, index), NoneVal)

SDG2000X_set_output_mode(s, index, value) ==
    IF value \notin OutputModes THEN Raise(s, E_unsupported)
    ELSE Return(_set_cache_valid(
                  [SDG2000X_mode_command(s, value)
                     EXCEPT !.val[T_mode][index] = value,
                            !.valid[T_mode] =
                                [c \in DOMAIN @ |->
                                   IF c \in Chan THEN FALSE ELSE @[c]]],
                  TRUE, T_mode, index), NoneVal)

\* ------------------------------------------------------------------ state
\* What the instrument may hold when the driver is constructed.
ChannelProfiles ==
    { [WVTP |-> Word("SINE"), FRQ |-> Qty(1000, "HZ"), AMP |-> Qty(2, "V"),
       OFST |-> Qty(0, "V"), PHSE |-> Qty(0, ""), DUTY |-> NoTok,
       NAME |-> Word("wave1"), MODE |-> Word("DDS"),
       VALUE |-> Qty(2000, "Sa/s"), OUTP |-> Word("OFF"),
       LOAD |-> Word("HZ")],
      [WVTP |-> Word("PULSE"), FRQ |-> Qty(500, "HZ"), AMP |-> Qty(3, "V"),
       OFST |-> Qty(1, "V"), PHSE |-> Qty(90, ""), DUTY |-> Qty(25, ""),
       NAME |-> Word("wave1"), MODE |-> Word("DDS"),
       VALUE |-> Qty(2000, "Sa/s"), OUTP |-> Word("ON"),
       LOAD |-> Qty(50, "")],
      [WVTP |-> Word("ARB"), FRQ |-> Qty(250, "HZ"), AMP |-> Qty(4, "V"),
       OFST |-> Qty(1, "V"), PHSE |-> Qty(0, ""), DUTY |-> NoTok,
       NAME |-> Word("wave2"), MODE |-> Word("TARB"),
       VALUE |-> Qty(4000, "Sa/s"), OUTP |-> Word("ON"),
       LOAD |-> Word("HZ")] }

ClockProfiles == { [ROSC |-> Word("INT")], [ROSC |-> Word("EXT")] }

\* The instruments the driver is run against: each pairs two different
\* channel settings with a reference clock setting.
Instruments ==
    { [c \in Chan \cup {NoChan} |->
         IF c = NoChan THEN [ROSC |-> Word(k.clock)]
         ELSE Only({p \in ChannelProfiles :
                      p.WVTP.w = IF c = 0 THEN k.first ELSE k.second})] :
      k \in { [first |-> "SINE", second |-> "PULSE", clock |-> "INT"],
              [first |-> "PULSE", second |-> "ARB", clock |-> "EXT"],
              [first |-> "ARB", second |-> "SINE", clock |-> "INT"] } }

_init_outputs ==
    /\ val = [t \in Attributes |->
               [c \in Chan |->
                 CASE t = T_mode -> "function"
                   [] t = T_clock -> ""
                   [] t = T_shape -> "sine"
                   [] t = T_amp -> DefaultAmplitude
                   [] t = T_ofst -> DefaultDcOffset
                   [] t = T_phase -> DefaultStartPhase
                   [] t = T_freq -> DefaultFrequency
                   [] t = T_duty -> DefaultDutyCycle
                   [] t = T_gain -> DefaultGain
                   [] t = T_afreq -> DefaultArbFrequency
                   [] t = T_aofst -> DefaultArbOffset
                   [] t = T_awfm -> NoneVal
                   [] t = T_srate -> DefaultSampleRate
                   [] t = T_submode -> "DDS"
                   [] t = T_enabled -> FALSE
                   [] t = T_load -> 0]]
    /\ valid = [t \in Tags |-> [c \in Chan \cup {NoChan} |-> FALSE]]
    /\ fmode = [c \in Chan |-> "frequency"]
    /\ opmode = [c \in Chan |-> "continuous"]

NoCall ==
    [op |-> "init", ch |-> NoChan, tag |-> "", arg |-> NoneVal,
     preValid |-> FALSE, preVal |-> NoneVal, preModeValid |-> FALSE,
     preRateValid |-> FALSE, preFreqValid |-> FALSE, preFlag |-> "",
     from |-> ""]

NoRoundTrip == [stage |-> 0, ch |-> NoChan, f |-> 0, a |-> 0, g |-> 0]

\* No reply line in hand, and no decoder result yet.
NoReply == [prefix |-> "", cmd |-> "", form |-> "none", toks |-> << >>]

NotParsed == ParseError("pending")

\* The burst settings after construction: one cycle per burst, the
\* internal trigger source (set by _init_outputs), no trigger rate.
DefaultBurst ==
    [count |-> [c \in Chan |-> 1], trigger |-> [c \in Chan |-> "internal"],
     rate |-> 0]

\* The SDG2000X driver's waveform bookkeeping after construction
\* (siglentSDG2000X.py lines 81-83): the handle counter
\* self._arbitrary_waveform_n, self._catalog_names as last loaded, the
\* handles returned so far, the position of the running
\* arbitrary_waveform_create call with the handle it is trying, and the
\* names of the waveforms in the instrument's memory.
NoWaveforms ==
    [n |-> 0, names |-> << >>, returned |-> << >>, pc |-> "idle",
     handle |-> "", store |-> << >>]

\* No thread is inside the cached setter.
NoThreads ==
    [tag |-> "", ch |-> NoChan, command |-> "", option |-> "",
     pc |-> << >>, value |-> << >>, updated |-> << >>]

Init ==
    /\ threads = NoThreads
    /\ burst = DefaultBurst
    /\ wfm = NoWaveforms
    /\ reply = NoReply
    /\ parsed = NotParsed
    /\ _init_outputs
    /\ dev \in Instruments
    /\ simulate = FALSE
    /\ call = NoCall
    /\ io = << >>
    /\ ret = NoneVal
    /\ err = E_none
    /\ ncalls = 0
    /\ rt = NoRoundTrip

\* The state a call of a driver method starts from; acc says whether the
\* instrument stores what is written to it during the call.
Start(acc) ==
    [val |-> val, valid |-> valid, fmode |-> fmode, opmode |-> opmode,
     dev |-> dev, sim |-> simulate, acc |-> acc,
     faulty |-> FALSE, wbudget |-> 0, burst |-> burst,
     io |-> << >>, ret |-> NoneVal, err |-> E_none]

\* The same on a transport that fails on the write after n delivered ones.
StartFaulty(n) == [Start(TRUE) EXCEPT !.faulty = TRUE, !.wbudget = n]

\* The output mode the driver finds the channel in when a call starts.
ModeAtEntry(ch) ==
    IF ch = NoChan THEN ""
    ELSE Only({ IF Failed(m) THEN "unknown" ELSE m.ret
                : m \in {_get_output_mode(Start(TRUE), ch)} })

\* ------------------------------------------------ the round-trip scenario
\* The position of the run in the scenario "in function mode set frequency
\* f, set amplitude a; switch to arbitrary mode; set a gain; switch back to
\* function mode", each step on the same channel and right after the one
\* before it.
RoundTripStep(op, ch, arg, r, from) ==
    IF op = "set_output_standard_waveform_frequency" /\ ~Failed(r)
       /\ from = "function"
    THEN [stage |-> 1, ch |-> ch, f |-> arg, a |-> 0, g |-> 0]
    ELSE IF rt.stage = 1 /\ op = "set_output_standard_waveform_amplitude"
            /\ ch = rt.ch /\ ~Failed(r) /\ from = "function"
    THEN [rt EXCEPT !.stage = 2, !.a = arg]
    ELSE IF rt.stage = 2 /\ op = "set_output_mode" /\ ch = rt.ch
            /\ ~Failed(r) /\ arg = "arbitrary"
    THEN [rt EXCEPT !.stage = 3]
    ELSE IF rt.stage = 3 /\ op = "set_output_arbitrary_gain" /\ ch = rt.ch
    THEN [rt EXCEPT !.stage = 4, !.g = arg]
    ELSE IF rt.stage = 4 /\ op = "set_output_mode" /\ ch = rt.ch
            /\ ~Failed(r) /\ arg = "function"
    THEN [rt EXCEPT !.stage = 5]
    ELSE NoRoundTrip

\* A call is explored while the call budget lasts, and beyond it when it
\* carries the round-trip scenario one step further.
Allowed(op, next_rt) ==
    \/ ncalls < MaxCalls
    \/ rt.stage >= 1 /\ next_rt.stage > rt.stage
    \/ op = "set_output_arbitrary_sub_mode"
    \/ op = "set_output_mode" /\ call.op = "set_output_arbitrary_gain"

\* The call the scenario expects next, decided before the call is run; a
\* change of the sub-mode is also explored whenever the channel holds both a
\* valid frequency and a valid sample rate, and a switch to arbitrary mode
\* right after a gain that is not positive was set in function mode.
ExpectedNext(op, ch, arg) ==
    \/ /\ ch = rt.ch
       /\ \/ rt.stage = 1 /\ op = "set_output_standard_waveform_amplitude"
          \/ rt.stage = 2 /\ op = "set_output_mode" /\ arg = "arbitrary"
          \/ rt.stage = 3 /\ op = "set_output_arbitrary_gain"
          \/ rt.stage = 4 /\ op = "set_output_mode" /\ arg = "function"
    \/ /\ op = "set_output_arbitrary_sub_mode"
       /\ valid[T_afreq][ch] /\ valid[T_srate][ch]
    \/ /\ op = "set_output_mode" /\ arg = "arbitrary"
       /\ call.op = "set_output_arbitrary_gain" /\ call.ch = ch
       /\ call.from = "function" /\ err = E_none /\ call.arg <= 0

\* The index of the cache entry of tag for a call on channel ch: the
\* reference clock is accessed without a channel.
EntryIndex(tag, ch) == IF tag = T_clock THEN NoChan ELSE ch

\* The call op(ch, arg) on the cache entry tag ends in call state r.
Finish(op, ch, arg, tag, r) ==
    /\ ncalls < MaxCalls \/ ExpectedNext(op, ch, arg)
    /\ \E x \in {r}, from \in {ModeAtEntry(ch)} :
      \E next_rt \in {RoundTripStep(op, ch, arg, x, from)} :
        /\ Allowed(op, next_rt)
        /\ val' = x.val
        /\ valid' = x.valid
        /\ fmode' = x.fmode
        /\ opmode' = x.opmode
        /\ dev' = x.dev
        /\ io' = x.io
        /\ ret' = x.ret
        /\ err' = x.err
        /\ call' = [op |-> op, ch |-> ch, tag |-> tag, arg |-> arg,
                    preValid |-> valid[tag][EntryIndex(tag, ch)],
                    preVal |-> val[tag][ListIndex(EntryIndex(tag, ch))],
                    preModeValid |-> valid[T_mode][ch],
                    preRateValid |-> valid[T_srate][ch],
                    preFreqValid |-> valid[T_afreq][ch],
                    preFlag |-> fmode[ch],
                    from |-> from]
        /\ rt' = next_rt
        /\ ncalls' = IF ncalls < MaxCalls THEN ncalls + 1 ELSE ncalls
        /\ burst' = x.burst
        /\ UNCHANGED <<simulate, reply, parsed, threads, wfm>>

\* ----------------------------------------------------------------- inputs
ModeInputs == {"function", "arbitrary", "noise"}

ClockInputs == {"external", "noise"}

ShapeInputs == {"square", "noise"}

AmplitudeInputs == {0, 3}

OffsetInputs == {1}

PhaseInputs == {90, 400}

FrequencyInputs == {0, 500}

DutyInputs == {0 - 1, 0, 100, 101}

GainInputs == {0, 4}

SampleRateInputs == {3000}

SubModeInputs == {"TARB", "DDS"}

DeviceAccepts == BOOLEAN

\* ---------------------------------------------------------------- actions
\* One action per property accessor of the driver: the getter or setter is
\* run to its end on the current state.
get_output_mode(ch) ==
    Finish("get_output_mode", ch, NoneVal, T_mode,
           _get_output_mode(Start(TRUE), ch))

set_output_mode(ch, value, acc) ==
    Finish("set_output_mode", ch, value, T_mode,
           _set_output_mode(Start(acc), ch, value))

get_output_reference_clock_source(ch) ==
    Finish("get_output_reference_clock_source", ch, NoneVal, T_clock,
           _get_output_reference_clock_source(Start(TRUE), ch))

set_output_reference_clock_source(ch, value, acc) ==
    Finish("set_output_reference_clock_source", ch, value, T_clock,
           _set_output_reference_clock_source(Start(acc), ch, value))

get_output_standard_waveform_amplitude(ch) ==
    Finish("get_output_standard_waveform_amplitude", ch, NoneVal, T_amp,
           _get_output_standard_waveform_amplitude(Start(TRUE), ch))

set_output_standard_waveform_amplitude(ch, value, acc) ==
    Finish("set_output_standard_waveform_amplitude", ch, value, T_amp,
           _set_output_standard_waveform_amplitude(Start(acc), ch, value))

get_output_standard_waveform_dc_offset(ch) ==
    Finish("get_output_standard_waveform_dc_offset", ch, NoneVal, T_ofst,
           _get_output_standard_waveform_dc_offset(Start(TRUE), ch))

set_output_standard_waveform_dc_offset(ch, value, acc) ==
    Finish("set_output_standard_waveform_dc_offset", ch, value, T_ofst,
           _set_output_standard_waveform_dc_offset(Start(acc), ch, value))

get_output_standard_waveform_duty_cycle_high(ch) ==
    Finish("get_output_standard_waveform_duty_cycle_high", ch, NoneVal, T_duty,
           _get_output_standard_waveform_duty_cycle_high(Start(TRUE), ch))

set_output_standard_waveform_duty_cycle_high(ch, value, acc) ==
    Finish("set_output_standard_waveform_duty_cycle_high", ch, value, T_duty,
           _set_output_standard_waveform_duty_cycle_high(Start(acc), ch, value))

get_output_standard_waveform_start_phase(ch) ==
    Finish("get_output_standard_waveform_start_phase", ch, NoneVal, T_phase,
           _get_output_standard_waveform_start_phase(Start(TRUE), ch))

set_output_standard_waveform_start_phase(ch, value, acc) ==
    Finish("set_output_standard_waveform_start_phase", ch, value, T_phase,
           _set_output_standard_waveform_start_phase(Start(acc), ch, value))

get_output_standard_waveform_frequency(ch) ==
    Finish("get_output_standard_waveform_frequency", ch, NoneVal, T_freq,
           _get_output_standard_waveform_frequency(Start(TRUE), ch))

set_output_standard_waveform_frequency(ch, value, acc) ==
    Finish("set_output_standard_waveform_frequency", ch, value, T_freq,
           _set_output_standard_waveform_frequency(Start(acc), ch, value))

get_output_standard_waveform_waveform(ch) ==
    Finish("get_output_standard_waveform_waveform", ch, NoneVal, T_shape,
           _get_output_standard_waveform_waveform(Start(TRUE), ch))

set_output_standard_waveform_waveform(ch, value, acc) ==
    Finish("set_output_standard_waveform_waveform", ch, value, T_shape,
           _set_output_standard_waveform_waveform(Start(acc), ch, value))

get_output_arbitrary_gain(ch) ==
    Finish("get_output_arbitrary_gain", ch, NoneVal, T_gain,
           _get_output_arbitrary_gain(Start(TRUE), ch))

set_output_arbitrary_gain(ch, value, acc) ==
    Finish("set_output_arbitrary_gain", ch, value, T_gain,
           _set_output_arbitrary_gain(Start(acc), ch, value))

get_output_arbitrary_offset(ch) ==
    Finish("get_output_arbitrary_offset", ch, NoneVal, T_aofst,
           _get_output_arbitrary_offset(Start(TRUE), ch))

set_output_arbitrary_offset(ch, value, acc) ==
    Finish("set_output_arbitrary_offset", ch, value, T_aofst,
           _set_output_arbitrary_offset(Start(acc), ch, value))

get_output_arbitrary_frequency(ch) ==
    Finish("get_output_arbitrary_frequency", ch, NoneVal, T_afreq,
           _get_output_arbitrary_frequency(Start(TRUE), ch))

set_output_arbitrary_frequency(ch, value, acc) ==
    Finish("set_output_arbitrary_frequency", ch, value, T_afreq,
           _set_output_arbitrary_frequency(Start(acc), ch, value))

get_output_arbitrary_sample_rate(ch) ==
    Finish("get_output_arbitrary_sample_rate", ch, NoneVal, T_srate,
           _get_output_arbitrary_sample_rate(Start(TRUE), ch))

set_output_arbitrary_sample_rate(ch, value, acc) ==
    Finish("set_output_arbitrary_sample_rate", ch, value, T_srate,
           _set_output_arbitrary_sample_rate(Start(acc), ch, value))

set_output_arbitrary_sub_mode(ch, value, acc) ==
    Finish("set_output_arbitrary_sub_mode", ch, value, T_submode,
           _set_output_arbitrary_sub_mode(Start(acc), ch, value))

Getters ==
    \E ch \in Chan :
        \/ get_output_mode(ch)
        \/ get_output_reference_clock_source(ch)
        \/ get_output_standard_waveform_amplitude(ch)
        \/ get_output_standard_waveform_dc_offset(ch)
        \/ get_output_standard_waveform_duty_cycle_high(ch)
        \/ get_output_standard_waveform_start_phase(ch)
        \/ get_output_standard_waveform_frequency(ch)
        \/ get_output_standard_waveform_waveform(ch)
        \/ get_output_arbitrary_gain(ch)
        \/ get_output_arbitrary_offset(ch)
        \/ get_output_arbitrary_frequency(ch)
        \/ get_output_arbitrary_sample_rate(ch)

\* The instrument ignoring a write is explored for the output mode, the
\* reference clock and the amplitude; it stores every other write.
Setters ==
    \E ch \in Chan :
        \/ \E v \in ModeInputs, acc \in DeviceAccepts :
               set_output_mode(ch, v, acc)
        \/ \E v \in ClockInputs, acc \in DeviceAccepts :
               set_output_reference_clock_source(ch, v, acc)
        \/ \E v \in AmplitudeInputs, acc \in DeviceAccepts :
               set_output_standard_waveform_amplitude(ch, v, acc)
        \/ \E v \in OffsetInputs :
               set_output_standard_waveform_dc_offset(ch, v, TRUE)
        \/ \E v \in DutyInputs :
               set_output_standard_waveform_duty_cycle_high(ch, v, TRUE)
        \/ \E v \in PhaseInputs :
               set_output_standard_waveform_start_phase(ch, v, TRUE)
        \/ \E v \in FrequencyInputs :
               set_output_standard_waveform_frequency(ch, v, TRUE)
        \/ \E v \in ShapeInputs :
               set_output_standard_waveform_waveform(ch, v, TRUE)
        \/ \E v \in GainInputs : set_output_arbitrary_gain(ch, v, TRUE)
        \/ \E v \in OffsetInputs : set_output_arbitrary_offset(ch, v, TRUE)
        \/ \E v \in FrequencyInputs :
               set_output_arbitrary_frequency(ch, v, TRUE)
        \/ \E v \in SampleRateInputs :
               set_output_arbitrary_sample_rate(ch, v, TRUE)
        \/ \E v \in SubModeInputs : set_output_arbitrary_sub_mode(ch, v, TRUE)

Next == Getters \/ Setters

Spec == Init /\ [][Next]_vars

\* ------------------------------- the driver on an instrument that stores
\* Every setter against an instrument that stores each value written to it.
AcceptedSetters ==
    \E ch \in Chan :
        \/ \E v \in ModeInputs : set_output_mode(ch, v, TRUE)
        \/ \E v \in ClockInputs :
               set_output_reference_clock_source(ch, v, TRUE)
        \/ \E v \in AmplitudeInputs :
               set_output_standard_waveform_amplitude(ch, v, TRUE)
        \/ \E v \in OffsetInputs :
               set_output_standard_waveform_dc_offset(ch, v, TRUE)
        \/ \E v \in DutyInputs :
               set_output_standard_waveform_duty_cycle_high(ch, v, TRUE)
        \/ \E v \in PhaseInputs :
               set_output_standard_waveform_start_phase(ch, v, TRUE)
        \/ \E v \in FrequencyInputs :
               set_output_standard_waveform_frequency(ch, v, TRUE)
        \/ \E v \in ShapeInputs :
               set_output_standard_waveform_waveform(ch, v, TRUE)
        \/ \E v \in GainInputs : set_output_arbitrary_gain(ch, v, TRUE)
        \/ \E v \in OffsetInputs : set_output_arbitrary_offset(ch, v, TRUE)
        \/ \E v \in FrequencyInputs :
               set_output_arbitrary_frequency(ch, v, TRUE)
        \/ \E v \in SampleRateInputs :
               set_output_arbitrary_sample_rate(ch, v, TRUE)
        \/ \E v \in SubModeInputs : set_output_arbitrary_sub_mode(ch, v, TRUE)

StoringNext == Getters \/ AcceptedSetters

StoringSpec == Init /\ [][StoringNext]_vars

\* ------------------------------------------------------ the decoder alone
\* The reply lines the decoder is applied to. A line is
\* "[<prefix>:]<cmd> <t1>,<t2>,..." (form "plain"), the same with a space
\* after each comma (form "spaced"), or the header alone without a space
\* (form "bare"); the prefix C3 names a channel the instrument has not.
ReplyPrefixes == {"", "C1", "C2", "C3"}

ReplyCommands == {"OUTP", "BSWV"}

ReplyTokens == {Word("ON"), Word("FRQ"), Qty(1000, "HZ")}

TokenLists == UNION {[1 .. n -> ReplyTokens] : n \in 0 .. MaxTokens}

Replies ==
    [prefix : ReplyPrefixes, cmd : ReplyCommands, form : {"plain", "spaced"},
     toks : TokenLists]
    \cup [prefix : ReplyPrefixes, cmd : ReplyCommands, form : {"bare"},
          toks : {<< >>}]

\* The tokens joined by "," or by ", ".
Join(toks, form) ==
    IF form = "spaced"
    THEN [i \in 1 .. 3 * Len(toks) - 2 |->
            CASE i % 3 = 1 -> toks[(i + 2) \div 3]
              [] i % 3 = 2 -> COMMA
              [] OTHER -> SP]
    ELSE [i \in 1 .. 2 * Len(toks) - 1 |->
            IF i % 2 = 1 THEN toks[(i + 1) \div 2] ELSE COMMA]

\* The line of a reply.
Render(r) ==
    (IF r.prefix = "" THEN << >> ELSE <<Word(r.prefix), COLON>>)
        \o <<Word(r.cmd)>>
        \o (IF r.form = "bare" THEN << >>
            ELSE <<SP>> \o Join(r.toks, r.form))

DecoderInit ==
    /\ threads = NoThreads
    /\ burst = DefaultBurst
    /\ wfm = NoWaveforms
    /\ reply \in Replies
    /\ parsed = NotParsed
    /\ _init_outputs
    /\ dev = CHOOSE d \in Instruments : TRUE
    /\ simulate = FALSE
    /\ call = NoCall
    /\ io = << >>
    /\ ret = NoneVal
    /\ err = E_none
    /\ ncalls = 0
    /\ rt = NoRoundTrip

\* The decoder is applied to the line in hand.
Decode ==
    /\ parsed = NotParsed
    /\ parsed' = _parse_scpi_response_to_dict(Render(reply))
    /\ UNCHANGED <<val, valid, fmode, opmode, dev, simulate, call, io, ret, err,
                   ncalls, rt, reply, threads, burst, wfm>>

DecoderNext == Decode

DecoderSpec == DecoderInit /\ [][DecoderNext]_vars

\* The decoder of the SDG2000X driver is applied to the line in hand.
SDG2000X_decode ==
    /\ parsed = NotParsed
    /\ parsed' = _parse_response_to_dict(Render(reply))
    /\ UNCHANGED <<val, valid, fmode, opmode, dev, simulate, call, io, ret, err,
                   ncalls, rt, reply, threads, burst, wfm>>

SDG2000XDecoderSpec == DecoderInit /\ [][SDG2000X_decode]_vars

\* -------------------------------------------- the driver on a failing link
\* The number of delivered writes after which the transport may fail during
\* a mode switch: before the mode write, or before any of the replayed
\* parameters of the function mode.
FaultPositions == 0 .. Cardinality(FunctionTags)

\* A mode switch during which the transport fails on one write.
set_output_mode_interrupted(ch, value, n) ==
    Finish("set_output_mode", ch, value, T_mode,
           _set_output_mode(StartFaulty(n), ch, value))

\* A set during which the transport fails on the write.
set_output_standard_waveform_amplitude_interrupted(ch, value) ==
    Finish("set_output_standard_waveform_amplitude", ch, value, T_amp,
           _set_output_standard_waveform_amplitude(StartFaulty(0), ch, value))

set_output_arbitrary_gain_interrupted(ch, value) ==
    Finish("set_output_arbitrary_gain", ch, value, T_gain,
           _set_output_arbitrary_gain(StartFaulty(0), ch, value))

FaultNext ==
    \E ch \in Chan :
        \/ \E v \in AmplitudeInputs :
               set_output_standard_waveform_amplitude_interrupted(ch, v)
        \/ \E v \in GainInputs : set_output_arbitrary_gain_interrupted(ch, v)
        \/ \E v \in OutputModes : set_output_mode(ch, v, TRUE)
        \/ \E v \in OutputModes, n \in FaultPositions :
               set_output_mode_interrupted(ch, v, n)
        \/ \E v \in AmplitudeInputs :
               set_output_standard_waveform_amplitude(ch, v, TRUE)
        \/ \E v \in GainInputs : set_output_arbitrary_gain(ch, v, TRUE)
        \/ \E v \in SampleRateInputs :
               set_output_arbitrary_sample_rate(ch, v, TRUE)

FaultSpec == Init /\ [][FaultNext]_vars

\* ------------------------------------------- operation mode and burst
BurstCounts == {1, 3}

TriggerRates == {0, 2}

OperationModeInputs == {"continuous", "burst", "gated"}

TriggerSourceInputs == {"external", "software", "line"}

BurstInit ==
    /\ \E n \in BurstCounts, r \in TriggerRates :
          burst = [DefaultBurst EXCEPT !.count = [c \in Chan |-> n],
                                       !.rate = r]
    /\ wfm = NoWaveforms
    /\ threads = NoThreads
    /\ reply = NoReply
    /\ parsed = NotParsed
    /\ _init_outputs
    /\ dev = CHOOSE d \in Instruments : TRUE
    /\ simulate = FALSE
    /\ call = NoCall
    /\ io = << >>
    /\ ret = NoneVal
    /\ err = E_none
    /\ ncalls = 0
    /\ rt = NoRoundTrip

\* The call op(ch, arg) of a method outside the cached accessors ends in
\* call state r; a software trigger is explored once beyond the call
\* budget too.
FinishPlain(op, ch, arg, r) ==
    /\ \/ ncalls < MaxCalls
       \/ op = "send_software_trigger" /\ call.op # "send_software_trigger"
    /\ \E x \in {r} :
        /\ val' = x.val
        /\ valid' = x.valid
        /\ fmode' = x.fmode
        /\ opmode' = x.opmode
        /\ dev' = x.dev
        /\ io' = x.io
        /\ ret' = x.ret
        /\ err' = x.err
        /\ burst' = x.burst
    /\ call' = [NoCall EXCEPT !.op = op, !.ch = ch, !.arg = arg,
                              !.preFlag = IF ch = NoChan THEN ""
                                          ELSE opmode[ch]]
    /\ rt' = NoRoundTrip
    /\ ncalls' = IF ncalls < MaxCalls THEN ncalls + 1 ELSE ncalls
    /\ UNCHANGED <<simulate, reply, parsed, threads, wfm>>

set_output_operation_mode(ch, value) ==
    FinishPlain("set_output_operation_mode", ch, value,
                _set_output_operation_mode(Start(TRUE), ch, value))

set_output_trigger_source(ch, value) ==
    FinishPlain("set_output_trigger_source", ch, value,
                _set_output_trigger_source(Start(TRUE), ch, value))

set_output_burst_count(ch, value) ==
    FinishPlain("set_output_burst_count", ch, value,
                _set_output_burst_count(Start(TRUE), ch, value))

set_internal_trigger_rate(value) ==
    FinishPlain("set_internal_trigger_rate", NoChan, value,
                _set_internal_trigger_rate(Start(TRUE), value))

send_software_trigger ==
    FinishPlain("send_software_trigger", NoChan, NoneVal,
                _send_software_trigger(Start(TRUE)))

BurstNext ==
    \/ \E v \in TriggerRates : set_internal_trigger_rate(v)
    \/ send_software_trigger
    \/ \E ch \in Chan, v \in BurstCounts : set_output_burst_count(ch, v)
    \/ \E ch \in Chan :
        \/ \E v \in OperationModeInputs : set_output_operation_mode(ch, v)
        \/ \E v \in TriggerSourceInputs : set_output_trigger_source(ch, v)

BurstSpec == BurstInit /\ [][BurstNext]_vars

\* ------------------------------------------------------ utility functions
utility_error_query ==
    FinishPlain("utility_error_query", NoChan, NoneVal,
                _utility_error_query(Start(TRUE)))

\* The error query among calls that fill and change the cache.
UtilityNext ==
    \/ utility_error_query
    \/ \E ch \in Chan :
          \/ get_output_mode(ch)
          \/ get_output_standard_waveform_amplitude(ch)
          \/ get_output_reference_clock_source(ch)
          \/ \E v \in AmplitudeInputs :
                 set_output_standard_waveform_amplitude(ch, v, TRUE)
          \/ \E v \in OutputModes : set_output_mode(ch, v, TRUE)
          \/ \E v \in OperationMode : set_output_operation_mode(ch, v)

UtilitySpec == Init /\ [][UtilityNext]_vars

\* ------------------------------------ parameters that share one command
get_output_enabled(ch) ==
    Finish("get_output_enabled", ch, NoneVal, T_enabled,
           _get_output_enabled(Start(TRUE), ch))

set_output_enabled(ch, value) ==
    Finish("set_output_enabled", ch, value, T_enabled,
           _set_output_enabled(Start(TRUE), ch, value))

get_output_impedance(ch) ==
    Finish("get_output_impedance", ch, NoneVal, T_load,
           _get_output_impedance(Start(TRUE), ch))

set_output_impedance(ch, value) ==
    Finish("set_output_impedance", ch, value, T_load,
           _set_output_impedance(Start(TRUE), ch, value))

ImpedanceInputs == {0, 50}

\* Gets and sets of parameters that travel in the same reply: amplitude,
\* offset, frequency and phase in BSWV, output state and load in OUTP.
SharedNext ==
    \E ch \in Chan :
        \/ get_output_standard_waveform_amplitude(ch)
        \/ get_output_standard_waveform_dc_offset(ch)
        \/ get_output_standard_waveform_frequency(ch)
        \/ get_output_standard_waveform_start_phase(ch)
        \/ \E v \in PhaseInputs :
               set_output_standard_waveform_start_phase(ch, v, TRUE)
        \/ get_output_enabled(ch)
        \/ get_output_impedance(ch)
        \/ \E v \in BOOLEAN : set_output_enabled(ch, v)
        \/ \E v \in ImpedanceInputs : set_output_impedance(ch, v)

SharedSpec == Init /\ [][SharedNext]_vars

\* ------------------------------------------------ the driver simulating
\* The driver constructed with simulation on or off.
InitAnyMode ==
    /\ threads = NoThreads
    /\ burst = DefaultBurst
    /\ wfm = NoWaveforms
    /\ reply = NoReply
    /\ parsed = NotParsed
    /\ _init_outputs
    /\ dev \in Instruments
    /\ simulate \in BOOLEAN
    /\ call = NoCall
    /\ io = << >>
    /\ ret = NoneVal
    /\ err = E_none
    /\ ncalls = 0
    /\ rt = NoRoundTrip

\* The driver constructed with simulation on.
SimulatedInit ==
    /\ InitAnyMode
    /\ simulate
    /\ dev = CHOOSE d \in Instruments : TRUE

SimulatedSpec == SimulatedInit /\ [][StoringNext]_vars

\* ---------------------------------------------------------------- reset
utility_reset ==
    FinishPlain("utility_reset", NoChan, NoneVal, _utility_reset(Start(TRUE)))

SDG2000X_reset ==
    FinishPlain("SDG2000X.utility_reset", NoChan, NoneVal,
                SDG2000X_utility_reset(Start(TRUE)))

\* Reset among calls that fill and change the cache, simulation on or off.
ResetNext ==
    \/ utility_reset
    \/ SDG2000X_reset
    \/ \E ch \in Chan :
          \/ get_output_mode(ch)
          \/ get_output_standard_waveform_amplitude(ch)
          \/ get_output_reference_clock_source(ch)
          \/ get_output_enabled(ch)
          \/ \E v \in AmplitudeInputs :
                 set_output_standard_waveform_amplitude(ch, v, TRUE)
          \/ \E v \in OutputModes : set_output_mode(ch, v, TRUE)

ResetSpec == InitAnyMode /\ [][ResetNext]_vars

\* ------------------------------------------- SDG2000X waveform handles
\* self._arbitrary_waveform_quantum (siglentSDG2000X.py line 79).
_arbitrary_waveform_quantum == 8

\* The elements of a sequence.
Range(q) == {q[i] : i \in DOMAIN q}

\* str.lower() on the texts a catalog answer is made of.
Lower(w) ==
    CASE w = "W0001.WFM" -> "w0001.wfm"
      [] w = "W0002.WFM" -> "w0002.wfm"
      [] w = "SINE.WFM" -> "sine.wfm"
      [] w = "WFM" -> "wfm"
      [] OTHER -> w

\* The comma-separated fields that follow the header and the space in the
\* instrument's answer to ":memory:catalog:all?": per stored waveform its
\* name in quotes, its type and its size; one empty field when nothing is
\* stored.
CatalogFields(store) ==
    IF store = << >> THEN <<[q |-> FALSE, w |-> ""]>>
    ELSE [i \in 1..(3 * Len(store)) |->
             IF i % 3 = 1 THEN [q |-> TRUE, w |-> store[(i + 2) \div 3]]
             ELSE IF i % 3 = 2 THEN [q |-> FALSE, w |-> "WFM"]
             ELSE [q |-> FALSE, w |-> "16"]]

\* Lines 220-222: the quotes are stripped, the fields are grouped by three
\* and the first of each group is a name. The field texts are lower case
\* (line 216).
CatalogNames(fields) ==
    [k \in 1..((Len(fields) + 2) \div 3) |-> Lower(fields[3 * (k - 1) + 1].w)]

\* _load_catalog (lines 212-222): nothing is asked in simulation.
_load_catalog(sim, store) ==
    IF sim THEN << >> ELSE CatalogNames(CatalogFields(store))

\* "w%04d.wfm" % n (line 535): at least four digits, zero padded.
Handle(n) ==
    "w" \o (IF n < 10 THEN "000" ELSE IF n < 100 THEN "00"
            ELSE IF n < 1000 THEN "0" ELSE "") \o ToString(n) \o ".wfm"

\* A search that takes the first handle it forms.
FindHandleUnchecked(w) ==
    [w EXCEPT !.n = @ + 1, !.handle = Handle(w.n + 1), !.pc = "write"]

\* One turn of the loop of lines 533-536: the counter goes up by one, the
\* handle is formed from it, and the loop ends when the handle is not among
\* the loaded names.
FindHandle(w) ==
    [w EXCEPT !.n = @ + 1, !.handle = Handle(w.n + 1),
              !.pc = IF Handle(w.n + 1) \notin Range(w.names) THEN "write"
                     ELSE "search"]

\* The texts written once the handle is found (lines 537-546 and 563).
WaveformWrites(handle) ==
    <<":data:destination \"" \o handle \o "\"", ":wfmpre:bit_nr 12",
      ":wfmpre:bn_fmt rp", ":wfmpre:byt_nr 2", ":wfmpre:byt_or msb",
      ":wfmpre:encdg bin", ":wfmpre:pt_fmt y", ":wfmpre:yzero 0",
      ":wfmpre:ymult 4.882812e-04", ":wfmpre:xincr 1.000000e-07", ":curve ">>

\* ------------------------------------------- the SDG2000X driver's calls
SDG2000X_get_mode(ch) ==
    FinishPlain("SDG2000X.get_output_mode", ch, NoneVal,
                SDG2000X_get_output_mode(Start(TRUE), ch))

SDG2000X_set_mode(ch, value) ==
    FinishPlain("SDG2000X.set_output_mode", ch, value,
                SDG2000X_set_output_mode(Start(TRUE), ch, value))

SDG2000XNext ==
    \E ch \in Chan :
        \/ SDG2000X_get_mode(ch)
        \/ \E v \in ModeInputs : SDG2000X_set_mode(ch, v)

SDG2000XSpec == InitAnyMode /\ [][SDG2000XNext]_vars

\* ------------------------------------- SDG2000X arbitrary_waveform_create
\* The instrument's waveform memory when the driver connects.
InitialStores ==
    { << >>, <<"w0001.wfm">>, <<"W0002.WFM">>, <<"W0001.WFM", "w0002.wfm">>,
      <<"SINE.WFM", "w0001.wfm", "w0003.wfm">> }

\* Sample counts of the data handed to the call.
SampleCounts == {8, 12, 16}

WaveformInit ==
    /\ wfm \in {[NoWaveforms EXCEPT !.store = c] : c \in InitialStores}
    /\ threads = NoThreads
    /\ burst = DefaultBurst
    /\ reply = NoReply
    /\ parsed = NotParsed
    /\ _init_outputs
    /\ dev = CHOOSE d \in Instruments : TRUE
    /\ simulate \in BOOLEAN
    /\ call = NoCall
    /\ io = << >>
    /\ ret = NoneVal
    /\ err = E_none
    /\ ncalls = 0
    /\ rt = NoRoundTrip

\* The call up to the search (lines 504-531) for a one-dimensional array of
\* len samples: the quantum test raises before anything is sent; otherwise
\* the catalog is loaded.
arbitrary_waveform_create(len) ==
    /\ wfm.pc = "idle"
    /\ ncalls < MaxCalls
    /\ IF len % _arbitrary_waveform_quantum # 0
       THEN /\ err' = E_unsupported
            /\ io' = << >>
            /\ wfm' = wfm
       ELSE /\ err' = E_none
            /\ io' = IF simulate THEN << >>
                     ELSE <<[kind |-> "ask", text |-> ":memory:catalog:all?",
                             ch |-> NoChan, cmd |-> "", opt |-> ""]>>
            /\ wfm' = [wfm EXCEPT !.names = _load_catalog(simulate, wfm.store),
                                  !.pc = "search"]
    /\ ret' = NoneVal
    /\ call' = [NoCall EXCEPT !.op = "arbitrary_waveform_create", !.arg = len]
    /\ ncalls' = ncalls + 1
    /\ UNCHANGED <<val, valid, fmode, opmode, dev, simulate, rt, reply, parsed,
                   threads, burst>>

\* One turn of the search loop.
arbitrary_waveform_find_handle ==
    /\ wfm.pc = "search"
    /\ wfm' = FindHandle(wfm)
    /\ UNCHANGED <<val, valid, fmode, opmode, dev, simulate, call, io, ret, err,
                   ncalls, rt, reply, parsed, threads, burst>>

\* The waveform is written under the handle and the handle is returned
\* (lines 537-565); the instrument then holds a waveform of that name.
arbitrary_waveform_write ==
    /\ wfm.pc = "write"
    /\ io' = IF simulate THEN io
             ELSE io \o [i \in 1..Len(WaveformWrites(wfm.handle)) |->
                            [kind |-> "write",
                             text |-> WaveformWrites(wfm.handle)[i],
                             ch |-> NoChan, cmd |-> "", opt |-> ""]]
    /\ ret' = wfm.handle
    /\ wfm' = [wfm EXCEPT !.pc = "idle", !.returned = Append(@, wfm.handle),
                          !.store = IF simulate THEN @
                                    ELSE Append(@, wfm.handle)]
    /\ UNCHANGED <<val, valid, fmode, opmode, dev, simulate, call, err, ncalls,
                   rt, reply, parsed, threads, burst>>

WaveformNext ==
    \/ \E len \in SampleCounts : arbitrary_waveform_create(len)
    \/ arbitrary_waveform_find_handle
    \/ arbitrary_waveform_write

WaveformSpec == WaveformInit /\ [][WaveformNext]_vars

\* The thread inside the call keeps running: a turn of the loop that can be
\* taken is taken, and so is the writing that follows it.
WaveformFairSpec ==
    /\ WaveformSpec
    /\ WF_vars(arbitrary_waveform_find_handle)
    /\ WF_vars(arbitrary_waveform_write)

\* --------------------------------------- two threads in the cached setter
\* Two threads call _set_scpi_option_cached for the same entry with
\* different values. Nothing in the method is locked, so the write and the
\* update of the cache of one thread may be separated by steps of the other.
ThreadIds == {1, 2}

ThreadValues == {3, 4, 5}

ThreadEntries ==
    { [tag |-> T_amp, command |-> "BSWV", option |-> "AMP"],
      [tag |-> T_freq, command |-> "BSWV", option |-> "FRQ"] }

ThreadInit ==
    /\ \E e \in ThreadEntries, c \in Chan, v1, v2 \in ThreadValues :
          /\ v1 # v2
          /\ threads = [tag |-> e.tag, ch |-> c, command |-> e.command,
                        option |-> e.option, pc |-> <<"write", "write">>,
                        value |-> <<v1, v2>>, updated |-> << >>]
    /\ burst = DefaultBurst
    /\ wfm = NoWaveforms
    /\ reply = NoReply
    /\ parsed = NotParsed
    /\ _init_outputs
    /\ dev \in Instruments
    /\ simulate = FALSE
    /\ call = NoCall
    /\ io = << >>
    /\ ret = NoneVal
    /\ err = E_none
    /\ ncalls = 0
    /\ rt = NoRoundTrip

\* Thread t sends its write (line 301).
ThreadWrite(t) ==
    /\ threads.pc[t] = "write"
    /\ \E w \in {_write(Start(TRUE), threads.ch, threads.command,
                        threads.option, threads.value[t],
                        CommandWithOption(threads.command, threads.option,
                                          threads.ch,
                                          Fmt(IdCast, threads.value[t])))} :
          /\ dev' = w.dev
          /\ io' = io \o w.io
    /\ threads' = [threads EXCEPT !.pc[t] = "update"]
    /\ UNCHANGED <<val, valid, fmode, opmode, simulate, call, ret, err,
                   ncalls, rt, reply, parsed, burst, wfm>>

\* Thread t stores its value and marks the entry valid (lines 302-303).
ThreadUpdate(t) ==
    /\ threads.pc[t] = "update"
    /\ \E u \in {StoreWritten(Start(TRUE), threads.tag, threads.value[t],
                              threads.ch)} :
          /\ val' = u.val
          /\ valid' = u.valid
    /\ threads' = [threads EXCEPT !.pc[t] = "done",
                                  !.updated = Append(@, t)]
    /\ UNCHANGED <<fmode, opmode, dev, simulate, call, io, ret, err, ncalls,
                   rt, reply, parsed, burst, wfm>>

ThreadNext == \E t \in ThreadIds : ThreadWrite(t) \/ ThreadUpdate(t)

ThreadSpec == ThreadInit /\ [][ThreadNext]_vars

\* ----------------------------------------------------- reading the record
GetterOps ==
    {"get_output_mode", "get_output_reference_clock_source",
     "get_output_standard_waveform_amplitude",
     "get_output_standard_waveform_dc_offset",
     "get_output_standard_waveform_duty_cycle_high",
     "get_output_standard_waveform_start_phase",
     "get_output_standard_waveform_frequency",
     "get_output_standard_waveform_waveform",
     "get_output_arbitrary_gain", "get_output_arbitrary_offset",
     "get_output_arbitrary_frequency"}

\* The setters that are one call of the cached setter on their own entry.
SimpleSetterOps ==
    {"set_output_reference_clock_source",
     "set_output_standard_waveform_amplitude",
     "set_output_standard_waveform_dc_offset",
     "set_output_standard_waveform_duty_cycle_high",
     "set_output_standard_waveform_start_phase",
     "set_output_standard_waveform_frequency",
     "set_output_standard_waveform_waveform",
     "set_output_arbitrary_gain", "set_output_arbitrary_offset",
     "set_output_arbitrary_frequency"}

\* The getter of the property whose cache entry is tag, run on call state s.
GetByTag(s, tag, ch) ==
    CASE tag = T_mode -> _get_output_mode(s, ch)
      [] tag = T_clock -> _get_output_reference_clock_source(s, ch)
      [] tag = T_amp -> _get_output_standard_waveform_amplitude(s, ch)
      [] tag = T_ofst -> _get_output_standard_waveform_dc_offset(s, ch)
      [] tag = T_duty -> _get_output_standard_waveform_duty_cycle_high(s, ch)
      [] tag = T_phase -> _get_output_standard_waveform_start_phase(s, ch)
      [] tag = T_freq -> _get_output_standard_waveform_frequency(s, ch)
      [] tag = T_shape -> _get_output_standard_waveform_waveform(s, ch)
      [] tag = T_gain -> _get_output_arbitrary_gain(s, ch)
      [] tag = T_aofst -> _get_output_arbitrary_offset(s, ch)
      [] tag = T_afreq -> _get_output_arbitrary_frequency(s, ch)

\* The option of the instrument a cache entry is read from and written to.
OptionOf(tag) ==
    CASE tag \in {T_mode, T_shape} -> "WVTP"
      [] tag = T_clock -> "ROSC"
      [] tag \in {T_amp, T_gain} -> "AMP"
      [] tag \in {T_ofst, T_aofst} -> "OFST"
      [] tag = T_phase -> "PHSE"
      [] tag \in {T_freq, T_afreq} -> "FRQ"
      [] tag = T_duty -> "DUTY"

\* The last call went to the instrument for its own entry: the entry is not
\* mode-dependent, or the channel was in the mode the entry belongs to.
OnLivePath ==
    \/ call.tag \in {T_mode, T_clock}
    \/ call.tag \in FunctionTags /\ call.from = "function"
    \/ call.tag \in {T_gain, T_aofst, T_afreq} /\ call.from = "arbitrary"

\* The last call was routed to the shadow of the other mode.
OnShadowPath ==
    \/ call.tag \in FunctionTags /\ call.from = "arbitrary"
    \/ call.tag \in {T_gain, T_aofst, T_afreq} /\ call.from = "function"

IsAsk(e) == e.kind = "ask"

IsWrite(e) == e.kind = "write"

Asks == SelectSeq(io, IsAsk)

Writes == SelectSeq(io, IsWrite)

\* The cache entry of the last call.
EntryValid == valid[call.tag][EntryIndex(call.tag, call.ch)]

EntryValue == val[call.tag][ListIndex(EntryIndex(call.tag, call.ch))]

\* The text of the query for the entry of the last call.
QueryText ==
    IF call.tag = T_clock THEN "ROSC?"
    ELSE "C" \o ToString(call.ch + 1) \o ":BSWV?"

\* What the cast of the register of the last call's entry yields.
RegisterValue ==
    CASE call.tag = T_mode ->
           IF dev[call.ch].WVTP.w = "ARB" THEN "arbitrary" ELSE "function"
      [] call.tag = T_clock ->
           IF dev[NoChan].ROSC.w = "INT" THEN "internal" ELSE "external"
      [] call.tag = T_shape ->
           CASE dev[call.ch].WVTP.w = "SINE" -> "sine"
             [] dev[call.ch].WVTP.w = "PULSE" -> "square"
             [] dev[call.ch].WVTP.w = "RAMP" -> "triangle"
             [] dev[call.ch].WVTP.w = "DC" -> "dc"
             [] OTHER -> "?"
      [] OTHER -> dev[call.ch][OptionOf(call.tag)].n

\* ------------------------------------------------------------------ claims
\* C1: cache hit avoids I/O. When a successful get through the cached
\* accessor is followed at once by a get of the same property on the same
\* channel, the second get succeeds, returns the identical value and issues
\* no transport query.
C1_CacheHitAvoidsIO ==
    [][(/\ call.op \in GetterOps
        /\ err = E_none
        /\ call'.op = call.op
        /\ call'.ch = call.ch)
       => (err' = E_none /\ ret' = ret /\ io' = << >>)]_vars

\* A get that found its entry valid and answered from the cache.
C1_Witness ==
    /\ call.op \in GetterOps
    /\ OnLivePath
    /\ call.preValid
    /\ err = E_none
    /\ io = << >>
    /\ ncalls = 2

\* C2: a cache miss costs exactly one round trip. A get that goes to the
\* instrument for its own invalid entry issues one query for that entry
\* (plus one for the output-mode entry it consults, when that entry is
\* invalid too) and no write; the query is "<command>?", prefixed with
\* "C<index+1>:" for a channel and unprefixed for the reference clock; on
\* success the cast value is stored in the entry, the entry is valid and the
\* stored value is the value returned.
C2_CacheMissOneRoundTrip ==
    (call.op \in GetterOps /\ OnLivePath /\ ~call.preValid) =>
        /\ Writes = << >>
        /\ Len(io) = IF call.tag \in {T_mode, T_clock} \/ call.preModeValid
                     THEN 1 ELSE 2
        /\ io[Len(io)].text = QueryText
        /\ err = E_none =>
              /\ EntryValid
              /\ EntryValue = ret
              /\ ret = RegisterValue

\* A miss on a channel entry with the output mode already cached: one
\* prefixed query, the value stored.
C2_Witness ==
    /\ call.op = "get_output_standard_waveform_amplitude"
    /\ OnLivePath
    /\ ~call.preValid
    /\ call.preModeValid
    /\ err = E_none
    /\ Len(io) = 1
    /\ io[1].text = "C2:BSWV?"
    /\ EntryValid

\* C3: set updates the cache optimistically. After a successful set that
\* goes through the cached setter, the entry is valid and holds the logical
\* value that was set, and a get of the same property returns that value
\* without any transport operation, whether or not the instrument stored
\* what was written.
C3_SetUpdatesCache ==
    (call.op \in SimpleSetterOps \cup {"set_output_mode"}
         /\ OnLivePath /\ err = E_none) =>
        /\ EntryValid
        /\ EntryValue = call.arg
        /\ \A g \in {GetByTag(Start(TRUE), call.tag, call.ch)} :
              g.err = E_none /\ g.ret = call.arg /\ g.io = << >>

\* A set the instrument ignored: the register differs from the cached value.
C3_Witness ==
    /\ call.op = "set_output_reference_clock_source"
    /\ err = E_none
    /\ call.arg = "external"
    /\ dev[NoChan].ROSC.w = "INT"
    /\ EntryValid
    /\ EntryValue = "external"

\* C4: no write coalescing. Every successful call of a setter that goes
\* through the cached setter sends exactly one write, for the entry's
\* option and with the value set, also when the entry was already valid and
\* already held that value.
C4_NoWriteCoalescing ==
    (call.op \in SimpleSetterOps /\ OnLivePath /\ err = E_none) =>
        /\ Len(Writes) = 1
        /\ Writes[1].opt = OptionOf(call.tag)
        /\ Writes[1].ch = EntryIndex(call.tag, call.ch)
        /\ call.tag # T_shape /\ call.tag # T_clock
               => Writes[1].arg = call.arg

\* A set of the value the valid entry already held, and still one write.
C4_Witness ==
    /\ call.op = "set_output_standard_waveform_amplitude"
    /\ OnLivePath
    /\ err = E_none
    /\ call.preValid
    /\ call.preVal = call.arg
    /\ Len(Writes) = 1

\* The writes of the last call to one option of one channel, in order.
WritesTo(opt, ch) ==
    SelectSeq(io, LAMBDA e : e.kind = "write" /\ e.opt = opt /\ e.ch = ch)

LastArg(ws) == ws[Len(ws)].arg

\* C5: mode-switch round trip. After frequency f and amplitude a were set
\* on a channel in function mode, the channel was switched to arbitrary
\* mode, a gain was set there and the channel was switched back to function
\* mode, get frequency and get amplitude return f and a without a query, and
\* the last FRQ and AMP values the switch back wrote to the channel are f
\* and a.
C5_ModeSwitchRoundTrip ==
    rt.stage = 5 =>
        /\ \A g \in {_get_output_standard_waveform_frequency(Start(TRUE), rt.ch)} :
              g.err = E_none /\ g.ret = rt.f /\ g.io = << >>
        /\ \A g \in {_get_output_standard_waveform_amplitude(Start(TRUE), rt.ch)} :
              g.err = E_none /\ g.ret = rt.a /\ g.io = << >>
        /\ WritesTo("FRQ", rt.ch) # << >>
        /\ LastArg(WritesTo("FRQ", rt.ch)) = rt.f
        /\ WritesTo("AMP", rt.ch) # << >>
        /\ LastArg(WritesTo("AMP", rt.ch)) = rt.a

\* The scenario run to its end with f = 500, a = 3 and the gain 4 accepted
\* in arbitrary mode.
C5_Witness ==
    /\ rt.stage = 5
    /\ rt.f = 500
    /\ rt.a = 3
    /\ rt.g = 4
    /\ val[T_gain][rt.ch] = 4
    /\ val[T_amp][rt.ch] = 3
    /\ err = E_none

\* C6: save before leaving function mode. After set_output_mode succeeded on
\* a channel that was in function mode, every function-mode parameter
\* (amplitude, offset, phase, frequency, duty cycle, shape) has been read or
\* set: its cache entry is valid.
C6_SaveBeforeLeavingFunction ==
    (call.op = "set_output_mode" /\ call.from = "function" /\ err = E_none)
        => \A t \in FunctionTags : valid[t][call.ch]

\* C7: save before leaving arbitrary mode. When set_output_mode on a channel
\* that was in arbitrary mode got as far as its mode write, the entries of
\* gain, offset, selected waveform and frequency are valid, the mode write is
\* the first write of the call and no query follows a write: the reads
\* come before the mode write.
C7_SaveBeforeLeavingArbitrary ==
    (call.op = "set_output_mode" /\ call.from = "arbitrary" /\ Writes # << >>)
        => /\ \A t \in ArbitraryTags : valid[t][call.ch]
           /\ Writes[1].opt = "WVTP"
           /\ \A i, j \in 1 .. Len(io) :
                 (i < j /\ io[i].kind = "write") => io[j].kind = "write"

\* A switch out of arbitrary mode that had to query all four parameters.
C7_Witness ==
    /\ call.op = "set_output_mode"
    /\ call.from = "arbitrary"
    /\ call.arg = "function"
    /\ err = E_none
    /\ Len(Asks) >= 4
    /\ \E i \in 1 .. Len(Asks) : Asks[i].cmd = "ARWV"
    /\ \A t \in ArbitraryTags : valid[t][call.ch]

\* The options a restore has to write for the mode switched to.
RestoredOptions(mode) ==
    IF mode = "function" THEN {"WVTP", "AMP", "FRQ", "OFST", "PHSE", "DUTY"}
    ELSE {"AMP", "OFST", "NAME"}

\* C8: restore after the mode write. After a successful set_output_mode the
\* first write is the mode write and it is followed by a write for every
\* parameter of the new mode (function: shape, amplitude, frequency, offset,
\* phase, duty cycle; arbitrary: gain, offset, selected waveform, and
\* frequency or sample rate).
C8_RestoreAfterModeWrite ==
    (call.op = "set_output_mode" /\ err = E_none) =>
        /\ Writes # << >>
        /\ Writes[1].opt = "WVTP"
        /\ \A o \in RestoredOptions(call.arg) :
              \E i \in 2 .. Len(Writes) :
                  Writes[i].opt = o /\ Writes[i].ch = call.ch
        /\ call.arg = "arbitrary" =>
              \E i \in 2 .. Len(Writes) : Writes[i].opt \in {"FRQ", "VALUE"}

\* The device code of a standard waveform shape.
ShapeCode(shape) ==
    CASE shape = "sine" -> "SINE"
      [] shape = "square" -> "PULSE"
      [] shape = "triangle" -> "RAMP"
      [] shape = "dc" -> "DC"
      [] OTHER -> "?"

\* C9: the mode write. The first write of set_output_mode is
\* "C<n>:BSWV WVTP, ARB" when arbitrary mode is requested and
\* "C<n>:BSWV WVTP, <code>" when function mode is, the code being the device
\* code of the shape the driver holds for the channel; after a successful
\* call the output-mode entry is valid and get_output_mode returns the
\* requested mode without a query.
C9_ModeWrite ==
    (call.op = "set_output_mode" /\ Writes # << >>) =>
        /\ Writes[1].text =
              "C" \o ToString(call.ch + 1) \o ":BSWV WVTP, "
                  \o (IF call.arg = "arbitrary" THEN "ARB"
                      ELSE ShapeCode(val[T_shape][call.ch]))
        /\ err = E_none =>
              /\ valid[T_mode][call.ch]
              /\ \A g \in {_get_output_mode(Start(TRUE), call.ch)} :
                    g.err = E_none /\ g.ret = call.arg /\ g.io = << >>

\* A switch to function mode with the square shape held: the code is PULSE.
C9_Witness ==
    /\ call.op = "set_output_mode"
    /\ call.arg = "function"
    /\ err = E_none
    /\ val[T_shape][call.ch] = "square"
    /\ Writes[1].text = "C1:BSWV WVTP, PULSE"
    /\ val[T_mode][call.ch] = "function"

\* C10: mode-dependent routing to the shadow. A set of a function-mode
\* parameter while the channel is in arbitrary mode, and a set of gain,
\* offset or arbitrary frequency while it is in function mode, succeeds,
\* issues no write, stores the value in the attribute, and a get of the
\* parameter returns it (a duty cycle outside 0..100 aside).
C10_ShadowRouting ==
    (/\ call.op \in SimpleSetterOps
     /\ OnShadowPath
     /\ call.tag = T_duty => (call.arg >= 0 /\ call.arg <= 100))
        => /\ err = E_none
           /\ Writes = << >>
           /\ EntryValue = call.arg
           /\ \A g \in {GetByTag(Start(TRUE), call.tag, call.ch)} :
                 g.err = E_none /\ g.ret = call.arg

\* C11: dependent invalidation. A set of the arbitrary frequency of a
\* channel that returns leaves the sample-rate entry of that channel invalid
\* and the sample-rate entry of the other channel as it was, and a get of
\* the sample rate of the channel then issues one query, "C<n>:SRATE?".
C11_FrequencyInvalidatesSampleRate ==
    [][(call'.op = "set_output_arbitrary_frequency" /\ err' = E_none)
       => /\ ~valid'[T_srate][call'.ch]
          /\ \A c \in Chan \ {call'.ch} :
                /\ valid'[T_srate][c] = valid[T_srate][c]
                /\ val'[T_srate][c] = val[T_srate][c]
          /\ (\A g \in {_get_output_arbitrary_sample_rate(Start(TRUE),
                                                           call.ch)} :
                /\ Len(g.io) = 1
                /\ g.io[1].kind = "ask"
                /\ g.io[1].text = "C" \o ToString(call.ch + 1) \o ":SRATE?")'
      ]_vars

\* A frequency was written to a channel in arbitrary mode whose sample-rate
\* entry was valid, and the entry is invalid now.
C11_Witness ==
    /\ call.op = "set_output_arbitrary_frequency"
    /\ err = E_none
    /\ call.from = "arbitrary"
    /\ call.preRateValid
    /\ Len(WritesTo("FRQ", call.ch)) = 1
    /\ ~valid[T_srate][call.ch]

\* C12: the frequency_mode flag. The flag of a channel changes only in a
\* set of the arbitrary frequency or of the sample rate; after such a set
\* that returns it names the one that was set; and a switch into arbitrary
\* mode that returns has written the frequency once and no sample rate when
\* the flag named the frequency, the sample rate once and no frequency when
\* it named the sample rate, and leaves the flag as it was.
C12_FrequencyModeFlag ==
    [][/\ fmode' # fmode
          => call'.op \in {"set_output_arbitrary_frequency",
                           "set_output_arbitrary_sample_rate"}
       /\ \A c \in Chan \ {call'.ch} : fmode'[c] = fmode[c]
       /\ (call'.op = "set_output_arbitrary_frequency" /\ err' = E_none)
          => fmode'[call'.ch] = "frequency"
       /\ (call'.op = "set_output_arbitrary_sample_rate" /\ err' = E_none)
          => fmode'[call'.ch] = "sample_rate"
       /\ (call'.op = "set_output_mode" /\ err' = E_none)
          => /\ call'.arg = "arbitrary" /\ fmode[call'.ch] = "frequency"
                => (/\ Len(WritesTo("FRQ", call.ch)) = 1
                    /\ Len(WritesTo("VALUE", call.ch)) = 0)'
             /\ call'.arg = "arbitrary" /\ fmode[call'.ch] = "sample_rate"
                => (/\ Len(WritesTo("FRQ", call.ch)) = 0
                    /\ Len(WritesTo("VALUE", call.ch)) = 1)'
      ]_vars

\* A switch into arbitrary mode of a channel whose sample rate was set last:
\* the sample rate kept in the attribute was written and no frequency.
C12_Witness ==
    /\ call.op = "set_output_mode"
    /\ call.arg = "arbitrary"
    /\ err = E_none
    /\ call.preFlag = "sample_rate"
    /\ fmode[call.ch] = "sample_rate"
    /\ Len(WritesTo("VALUE", call.ch)) = 1
    /\ LastArg(WritesTo("VALUE", call.ch)) = val[T_srate][call.ch]
    /\ Len(WritesTo("FRQ", call.ch)) = 0

\* C13: a set of the TrueArb/DDS sub-mode of a channel that returns leaves
\* both the arbitrary-frequency entry and the sample-rate entry of that
\* channel invalid, after one write of the sub-mode to the channel.
C13_SubModeInvalidatesBoth ==
    (call.op = "set_output_arbitrary_sub_mode" /\ err = E_none)
        => /\ ~valid[T_afreq][call.ch]
           /\ ~valid[T_srate][call.ch]
           /\ Len(Writes) = 1
           /\ Writes[1].opt = "MODE"
           /\ Writes[1].ch = call.ch

\* The sub-mode was set on a channel whose frequency and sample-rate entries
\* were both valid.
C13_Witness ==
    /\ call.op = "set_output_arbitrary_sub_mode"
    /\ err = E_none
    /\ call.preFreqValid
    /\ call.preRateValid
    /\ ~valid[T_afreq][call.ch]
    /\ ~valid[T_srate][call.ch]

\* The exceptions that report an invalid argument.
InvalidArgument == {E_invalid, E_unsupported}

\* C14: duty-cycle bounds. A set of a duty cycle below 0 or above 100 raises
\* an invalid-argument exception whatever the mode of the channel, issues no
\* query and no write and leaves the stored duty cycle, the validity of its
\* entry and the validity of the output-mode entry as they were; a set of 0
\* or of 100 returns and stores the value.
C14_DutyCycleBounds ==
    call.op = "set_output_standard_waveform_duty_cycle_high"
       => /\ (call.arg < 0 \/ call.arg > 100)
             => /\ err \in InvalidArgument
                /\ io = << >>
                /\ EntryValue = call.preVal
                /\ EntryValid = call.preValid
                /\ valid[T_mode][call.ch] = call.preModeValid
          /\ call.arg \in {0, 100}
             => /\ err = E_none
                /\ EntryValue = call.arg

\* A duty cycle of 101 was rejected on a channel in arbitrary mode, without
\* I/O and with the stored duty cycle unchanged.
C14_Witness ==
    /\ call.op = "set_output_standard_waveform_duty_cycle_high"
    /\ call.arg = 101
    /\ call.from = "arbitrary"
    /\ err \in InvalidArgument
    /\ io = << >>
    /\ EntryValue = call.preVal

\* The last call was a set with an argument the driver documents as invalid:
\* an amplitude or a frequency that is not positive, a start phase outside
\* 0..360, or a value that is no member of the enumeration.
InvalidArgumentGiven ==
    \/ /\ call.op \in {"set_output_standard_waveform_amplitude",
                        "set_output_standard_waveform_frequency",
                        "set_output_arbitrary_gain",
                        "set_output_arbitrary_frequency"}
       /\ call.arg <= 0
    \/ /\ call.op = "set_output_standard_waveform_start_phase"
       /\ (call.arg < 0 \/ call.arg > 360)
    \/ /\ call.op = "set_output_standard_waveform_waveform"
       /\ call.arg \notin DOMAIN StandardWaveformMapping
    \/ /\ call.op = "set_output_mode"
       /\ call.arg \notin OutputModes
    \/ /\ call.op = "set_output_reference_clock_source"
       /\ call.arg \notin SampleClockSource

\* C15: invalid arguments are rejected before any I/O. A set with an
\* invalid argument raises an invalid-argument exception, issues no query
\* and no write, and leaves the value and the validity of its entry and the
\* validity of the output-mode entry as they were, in either output mode and
\* whether or not the output-mode entry was valid.
C15_InvalidRejectedBeforeIO ==
    InvalidArgumentGiven
        => /\ err \in InvalidArgument
           /\ io = << >>
           /\ EntryValue = call.preVal
           /\ EntryValid = call.preValid
           /\ valid[T_mode][call.ch] = call.preModeValid

\* C16: a get fails cleanly on a missing option. A get that raises
\* UnexpectedResponseException has issued one query for its entry (and one
\* before it for the output-mode entry it consults, when that entry was
\* invalid) and no write, its entry was invalid and is still invalid, and
\* the attribute holds the value it held before the get.
C16_GetFailsCleanly ==
    (call.op \in GetterOps /\ err = E_unexpected)
        => /\ ~call.preValid
           /\ ~EntryValid
           /\ EntryValue = call.preVal
           /\ Writes = << >>
           /\ Len(Asks) = (IF call.tag \in {T_mode, T_clock} \/ call.preModeValid
                           THEN 1 ELSE 2)
           /\ \A i \in 1 .. Len(Asks) : Asks[i].text = QueryText

\* A get of the duty cycle on a channel in function mode whose reply holds
\* no DUTY option: one query, the exception, the entry still invalid.
C16_Witness ==
    /\ call.op = "get_output_standard_waveform_duty_cycle_high"
    /\ call.from = "function"
    /\ call.preModeValid
    /\ err = E_unexpected
    /\ Len(Asks) = 1
    /\ ~EntryValid
    /\ EntryValue = call.preVal

\* ------------------------------------------------------ claims: decoder
\* The decoder has been applied to the line of reply.
Decoded == parsed.err # "pending"

\* The number of payload tokens of the line.
NumTokens == Len(reply.toks)

\* The key at position k of the payload is not repeated as a later key
\* (keys stand at the positions of the parity of k).
LastOfItsKey(k) ==
    \A j \in (k + 1) .. NumTokens :
        (j % 2 = k % 2) => reply.toks[j] # reply.toks[k]

\* C17: a well-formed channel-prefixed reply "<Cn>:<CMD> K1,V1,...,Km,Vm"
\* with n in {1, 2} decodes to channel n, command CMD and exactly the
\* options Ki -> Vi (the last Vi of a repeated key), with no key for the
\* command; a reply whose header has no prefix decodes to a record without
\* a channel.
C17_DecodesPrefixedReply ==
    (Decoded /\ reply.form = "plain" /\ NumTokens >= 1)
        => /\ (reply.prefix \in {"C1", "C2"} /\ NumTokens % 2 = 0)
              => /\ parsed.err = E_none
                 /\ parsed.has_chan
                 /\ parsed.chan = (IF reply.prefix = "C1" THEN 1 ELSE 2)
                 /\ parsed.cmd = Str(reply.cmd)
                 /\ DOMAIN parsed.opts
                       = {<<reply.toks[2 * i - 1]>> : i \in 1 .. NumTokens \div 2}
                 /\ \A i \in 1 .. NumTokens \div 2 :
                       LastOfItsKey(2 * i - 1)
                          => parsed.opts[<<reply.toks[2 * i - 1]>>]
                               = <<reply.toks[2 * i]>>
                 /\ Str(reply.cmd) \notin DOMAIN parsed.opts
           /\ reply.prefix = ""
              => /\ parsed.err = E_none
                 /\ ~parsed.has_chan
                 /\ parsed.cmd = Str(reply.cmd)

\* "C2:BSWV FRQ,1000HZ,ON,FRQ" was decoded: channel 2, two options.
C17_Witness ==
    /\ Decoded
    /\ reply.prefix = "C2"
    /\ reply.form = "plain"
    /\ reply.toks = <<Word("FRQ"), Qty(1000, "HZ"), Word("ON"), Word("FRQ")>>
    /\ parsed.err = E_none
    /\ parsed.chan = 2
    /\ parsed.opts[Str("FRQ")] = <<Qty(1000, "HZ")>>
    /\ parsed.opts[Str("ON")] = Str("FRQ")

C20_SplitOnceOnFirstSpace ==
    (/\ Decoded
     /\ reply.form \in {"plain", "spaced"}
     /\ reply.prefix \in {"", "C1", "C2"}
     /\ NumTokens >= 1)
        => /\ parsed.err = E_none
           /\ parsed.cmd = Str(reply.cmd)
           /\ parsed.data = Join(reply.toks, reply.form)

\* C21: a reply line without a space, which cannot be split into header and
\* payload, makes the decoder fail with the driver's UnexpectedResponse error
\* and with no other kind of error.
C21_UnsplittableLineIsProtocolError ==
    (Decoded /\ reply.form = "bare") => parsed.err = E_unexpected

\* C22: the reference clock source is one device-wide value. The ROSC query
\* and write carry no channel prefix, and in the state a successful
\* set_output_reference_clock_source(v) through any channel leaves behind,
\* get_output_reference_clock_source through every channel returns v and
\* issues no query.
C22_ReferenceClockDeviceWide ==
    /\ call.op \in {"get_output_reference_clock_source",
                    "set_output_reference_clock_source"}
       => \A k \in 1 .. Len(io) :
            io[k].text \in {"ROSC?", "ROSC INT", "ROSC EXT"}
    /\ (call.op = "set_output_reference_clock_source" /\ err = E_none)
       => \A j \in Chan :
            Only({ ~Failed(g) /\ g.io = << >> /\ g.ret = call.arg
                   : g \in {_get_output_reference_clock_source(Start(TRUE),
                                                                j)} })

\* The clock source was set to external through the first channel while no
\* clock source was cached.
C22_Witness ==
    /\ call.op = "set_output_reference_clock_source"
    /\ call.ch = 0
    /\ call.arg = "external"
    /\ err = E_none
    /\ ~call.preValid
    /\ Len(io) = 1
    /\ io[1].text = "ROSC EXT"

\* The command and the option a cache entry is read from and written to.
EntryCommand(t) ==
    CASE t = T_clock -> "ROSC"
      [] t = T_awfm -> "ARWV"
      [] t \in {T_srate, T_submode} -> "SRATE"
      [] t \in {T_enabled, T_load} -> "OUTP"
      [] t = T_srate2 -> ""
      [] OTHER -> "BSWV"

EntryOption(t) ==
    CASE t = T_awfm -> "NAME"
      [] t = T_srate -> "VALUE"
      [] t = T_submode -> "MODE"
      [] t = T_enabled -> "OUTP"
      [] t = T_load -> "LOAD"
      [] t = T_srate2 -> ""
      [] OTHER -> OptionOf(t)

AllGetterOps == GetterOps \cup {"get_output_arbitrary_sample_rate"}

\* The step sent a query of the entry's command, or a write of the entry's
\* option, for the entry's channel.
AskedFor(t, i) ==
    \E k \in 1 .. Len(io') :
        io'[k].kind = "ask" /\ io'[k].ch = i /\ io'[k].cmd = EntryCommand(t)

WroteTo(t, i) ==
    \E k \in 1 .. Len(io') :
        /\ io'[k].kind = "write" /\ io'[k].ch = i
        /\ io'[k].cmd = EntryCommand(t) /\ io'[k].opt = EntryOption(t)

Faults == SelectSeq(io, LAMBDA e : e.kind = "fault")

\* The options the restore writes after the mode write, in the order of the
\* code, for the mode switched to and the frequency_mode flag of the channel.
ReplayOrder(mode, flag) ==
    IF mode = "function"
    THEN <<"WVTP", "AMP", "FRQ", "OFST", "PHSE", "DUTY">>
    ELSE <<"AMP", "OFST", IF flag = "frequency" THEN "FRQ" ELSE "VALUE">>

\* The cache entry a replayed option belongs to.
ReplayTag(mode, opt) ==
    IF mode = "function"
    THEN CASE opt = "WVTP" -> T_shape
           [] opt = "AMP" -> T_amp
           [] opt = "FRQ" -> T_freq
           [] opt = "OFST" -> T_ofst
           [] opt = "PHSE" -> T_phase
           [] OTHER -> T_duty
    ELSE CASE opt = "AMP" -> T_gain
           [] opt = "OFST" -> T_aofst
           [] opt = "FRQ" -> T_afreq
           [] OTHER -> T_srate

\* C24: the replay of a mode switch is not atomic. When the transport fails
\* on a write of the restore sequence that follows the mode write, the call
\* ends with the transport's error and sends nothing more; the output-mode
\* entry is valid and holds the new mode; the parameters replayed before the
\* failure, in the order of the restore, are each held by the device and
\* valid in the cache; and no later parameter was written.
C24_ReplayNotAtomic ==
    (call.op = "set_output_mode" /\ Faults # << >> /\ Writes # << >>)
        => /\ err = E_io
           /\ Len(Faults) = 1
           /\ io[Len(io)].kind = "fault"
           /\ Writes[1].opt = "WVTP"
           /\ valid[T_mode][call.ch]
           /\ val[T_mode][call.ch] = call.arg
           /\ dev[call.ch].WVTP.w = "ARB" <=> call.arg = "arbitrary"
           /\ Len(Writes) - 1 < Len(ReplayOrder(call.arg, call.preFlag))
           /\ Faults[1].opt = ReplayOrder(call.arg, call.preFlag)[Len(Writes)]
           /\ \A i \in 2 .. Len(Writes) :
                /\ Writes[i].opt = ReplayOrder(call.arg, call.preFlag)[i - 1]
                /\ Writes[i].ch = call.ch
                /\ valid[ReplayTag(call.arg, Writes[i].opt)][call.ch]
                /\ dev[call.ch][Writes[i].opt] =
                       DevStore(Writes[i].opt, Writes[i].arg)
                /\ Writes[i].opt # "WVTP"
                   => val[ReplayTag(call.arg, Writes[i].opt)][call.ch]
                          = Writes[i].arg

\* A switch to function mode failed on the write of the offset: the shape,
\* the amplitude 3 set before and the frequency were replayed.
C24_Witness ==
    /\ call.op = "set_output_mode"
    /\ call.arg = "function"
    /\ err = E_io
    /\ Len(Writes) = 4
    /\ Faults # << >>
    /\ Faults[1].opt = "OFST"
    /\ val[T_amp][call.ch] = 3
    /\ valid[T_amp][call.ch]
    /\ valid[T_freq][call.ch]
    /\ ~valid[T_ofst][call.ch]
    /\ val[T_mode][call.ch] = "function"

\* Both threads have left the cached setter.
ThreadsDone == \A t \in ThreadIds : threads.pc[t] = "done"

\* C25: the cache is not safe under concurrency. Two threads call the
\* cached setter on the same (tag, channel) with different values; when both
\* have returned, the entry is valid and holds the value of the thread that
\* updated the cache last, while the device holds the value that was
\* written last - which, in the interleaving of the witness, is the other
\* thread's value.
C25_UnsynchronizedSetters ==
    (DOMAIN threads.pc # {} /\ ThreadsDone)
        => /\ Len(Writes) = 2
           /\ Len(threads.updated) = 2
           /\ valid[threads.tag][threads.ch]
           /\ val[threads.tag][threads.ch]
                  = threads.value[threads.updated[2]]
           /\ dev[threads.ch][threads.option]
                  = DevStore(threads.option, Writes[2].arg)

\* Both threads returned, the entry is valid, and the value in the cache is
\* not the one the device received last.
C25_Witness ==
    /\ DOMAIN threads.pc # {}
    /\ ThreadsDone
    /\ valid[threads.tag][threads.ch]
    /\ Len(Writes) = 2
    /\ val[threads.tag][threads.ch] # Writes[2].arg
    /\ dev[threads.ch][threads.option]
           # DevStore(threads.option, val[threads.tag][threads.ch])

\* C26: operation mode "continuous" is a software view only. A set of the
\* operation mode of a channel to "continuous" stores the mode in the driver
\* and sends no command to the device.
C26_ContinuousIsSoftwareOnly ==
    (call.op = "set_output_operation_mode" /\ call.arg = "continuous")
        => /\ err = E_none
           /\ opmode[call.ch] = "continuous"
           /\ io = << >>

\* C27: the error query is a no-op on a model without CMR? support. In every
\* state the driver reaches, the query returns (0, "Not supported") without
\* any transport I/O and leaves every cache value, every validity flag and
\* every other attribute of the driver, and the instrument, as they are; and
\* the call that was made did so.
C27_ErrorQueryNoOp ==
    ~_supports_cmr_query
        => /\ \A r \in {_utility_error_query(Start(TRUE))} :
                /\ r.err = E_none
                /\ r.ret.code = 0 /\ r.ret.msg = "Not supported"
                /\ r.io = << >>
                /\ r.val = val /\ r.valid = valid
                /\ r.fmode = fmode /\ r.opmode = opmode
                /\ r.burst = burst /\ r.dev = dev
           /\ call.op = "utility_error_query"
                => /\ io = << >>
                   /\ err = E_none
                   /\ ret.msg = "Not supported"

\* The error query was called on a driver that holds a valid amplitude
\* entry, after the amplitude was set to 3.
C27_Witness ==
    /\ call.op = "utility_error_query"
    /\ ret.code = 0
    /\ io = << >>
    /\ \E c \in Chan : valid[T_amp][c] /\ val[T_amp][c] = 3

\* The output mode the instrument has a channel in.
DeviceMode(c) == IF dev[c].WVTP.w = "ARB" THEN "arbitrary" ELSE "function"

\* The cache entries of the parameters of an output mode.
ModeTags(mode) ==
    IF mode = "function" THEN FunctionTags
    ELSE ArbitraryTags \cup {T_srate, T_submode}

\* The value a get of the entry would read from the instrument.
DeviceValue(t, c) ==
    CASE t = T_shape ->
           CASE dev[c].WVTP.w = "SINE" -> "sine"
             [] dev[c].WVTP.w = "PULSE" -> "square"
             [] dev[c].WVTP.w = "RAMP" -> "triangle"
             [] dev[c].WVTP.w = "DC" -> "dc"
             [] OTHER -> "?"
      [] t \in {T_awfm, T_submode} -> dev[c][EntryOption(t)].w
      [] OTHER -> dev[c][EntryOption(t)].n

\* C28: cache coherence in single-threaded use. Against an instrument that
\* stores every value written to it, after any sequence of gets, sets and
\* output-mode switches, a valid output-mode entry equals the mode the
\* instrument is in, and every valid entry of a parameter of that mode
\* equals the value the instrument holds for its option.
C28_CacheCoherent ==
    \A c \in Chan :
        /\ valid[T_mode][c] => val[T_mode][c] = DeviceMode(c)
        /\ \A t \in ModeTags(DeviceMode(c)) :
              valid[t][c] => val[t][c] = DeviceValue(t, c)

\* The calls on a parameter that is bound to a channel: every get and set
\* except those of the device-wide reference clock.
ChannelBoundOps ==
    (AllGetterOps \cup SimpleSetterOps
        \cup {"set_output_mode", "set_output_arbitrary_sample_rate",
              "set_output_arbitrary_sub_mode"})
    \ {"get_output_reference_clock_source",
       "set_output_reference_clock_source"}

\* C29: channel isolation of the cache. A get or set of a channel-bound
\* parameter on channel i changes no cached value and no validity flag of
\* any entry of another channel j # i, whether or not the call succeeds.
C29_ChannelIsolation ==
    [][call'.op \in ChannelBoundOps
       => \A j \in Chan \ {call'.ch} :
            /\ \A t \in Tags : valid'[t][j] = valid[t][j]
            /\ \A t \in Attributes : val'[t][j] = val[t][j]
            /\ fmode'[j] = fmode[j]]_vars

\* The amplitude of the first channel was written while the second channel
\* holds a valid amplitude entry with another value.
C29_Witness ==
    /\ call.op = "set_output_standard_waveform_amplitude"
    /\ call.ch = 0
    /\ err = E_none
    /\ Len(Writes) = 1
    /\ valid[T_amp][0]
    /\ valid[T_amp][1]
    /\ val[T_amp][0] # val[T_amp][1]

\* The entries that turned valid on the channel of the call in this step
\* by a read: all of them in a get, all but the entry written in a set.
NewlyRead ==
    {t \in Tags : valid'[t][call'.ch] /\ ~valid[t][call'.ch]}
        \ (IF call'.op \in {"set_output_standard_waveform_start_phase",
                            "set_output_enabled", "set_output_impedance"}
           THEN {call'.tag} ELSE {})

\* The number of queries sent in this step.
NumAsks == Cardinality({k \in 1 .. Len(io') : io'[k].kind = "ask"})

\* C30: one cache slot per logical parameter, not per command. A get or set
\* of one parameter changes the value and the validity of no other
\* parameter's entry (the output-mode entry a mode-dependent accessor looks
\* up with a query of its own aside), although the reply that was read
\* carries the other parameters of the command; every entry that turns
\* valid costs one query of its own, so a miss on a parameter whose value
\* came along in an earlier reply still sends a query.
C30_OneSlotPerParameter ==
    [][/\ \A t \in Tags \ {call'.tag, T_mode}, c \in Chan :
            valid'[t][c] = valid[t][c]
       /\ \A t \in Attributes \ {call'.tag, T_mode} : val'[t] = val[t]
       /\ \A k \in 1 .. Len(io') :
            io'[k].kind = "ask" => io'[k].ch = call'.ch
       /\ Cardinality(NewlyRead) <= NumAsks
       /\ err' = E_none => Cardinality(NewlyRead) = NumAsks
       /\ (call'.op \in {"get_output_enabled", "get_output_impedance"}
           /\ ~valid[call'.tag][call'.ch])
            => /\ Len(io') = 1
               /\ io'[1].cmd = "OUTP"
               /\ err' = E_none => NewlyRead = {call'.tag}]_vars

\* The load was read with a query of its own although the reply to the
\* query of the output state, which carried it, had been read before.
C30_Witness ==
    /\ call.op = "get_output_impedance"
    /\ ~call.preValid
    /\ EntryValid
    /\ valid[T_enabled][call.ch]
    /\ Len(Asks) = 1
    /\ Asks[1].text = "C" \o ToString(call.ch + 1) \o ":OUTP?"

\* C31: every command or query issued for the channel with index i carries
\* the channel token C<i+1>; for the SDG2000X driver the output-mode query
\* of channel i is "C<i+1>:BSWV?" and its mode write starts with "C<i+1>:".
C31_ChannelToken ==
    /\ (call.op = "SDG2000X.get_output_mode" /\ Len(io) > 0)
          => io[1].text = "C" \o ToString(call.ch + 1) \o ":BSWV?"
    /\ (call.op = "SDG2000X.set_output_mode" /\ Len(io) > 0)
          => io[1].text \in {"C" \o ToString(call.ch + 1) \o ":fg:state 1",
                             "C" \o ToString(call.ch + 1) \o ":fg:state 0"}

\* C32: the cached setter sends the write before it touches the cache: when
\* the transport fails on the write of a set, the entry of the parameter
\* holds the value and the validity it had before the call.
C32_WriteBeforeCache ==
    (/\ call.op \in {"set_output_standard_waveform_amplitude",
                     "set_output_arbitrary_gain"}
     /\ err = E_io)
        => /\ valid[call.tag][call.ch] = call.preValid
           /\ val[call.tag][call.ch] = call.preVal

\* The write of a set to a valid entry holding another value failed.
C32_Witness ==
    /\ call.op \in {"set_output_standard_waveform_amplitude",
                    "set_output_arbitrary_gain"}
    /\ err = E_io
    /\ call.preValid
    /\ call.preVal # call.arg
    /\ io[Len(io)].kind = "fault"
    /\ val[call.tag][call.ch] = call.preVal

After(r) == [r EXCEPT !.io = << >>, !.ret = NoneVal]

\* Every getter of the driver applied to channel c in call state s.
EveryGet(s, c) ==
    << _get_output_mode(s, c), _get_output_reference_clock_source(s, c),
       _get_output_enabled(s, c), _get_output_impedance(s, c),
       _get_output_standard_waveform_amplitude(s, c),
       _get_output_standard_waveform_dc_offset(s, c),
       _get_output_standard_waveform_duty_cycle_high(s, c),
       _get_output_standard_waveform_start_phase(s, c),
       _get_output_standard_waveform_frequency(s, c),
       _get_output_standard_waveform_waveform(s, c),
       _get_output_arbitrary_gain(s, c), _get_output_arbitrary_offset(s, c),
       _get_output_arbitrary_frequency(s, c),
       _get_output_arbitrary_sample_rate(s, c),
       SDG2000X_get_output_mode(s, c) >>

\* What a reset does: with simulation off it writes "*RST" and nothing
\* else, leaves every entry invalid and the values alone, and every get
\* that follows sends a query; with simulation on it does nothing.
ResetsProperly(r) ==
    /\ r.err = E_none
    /\ r.val = val
    /\ IF simulate THEN r.io = << >> /\ r.valid = valid
       ELSE /\ Len(r.io) = 1
            /\ r.io[1].kind = "write"
            /\ r.io[1].text = "*RST"
            /\ \A t \in Tags, c \in Chan \cup {NoChan} : ~r.valid[t][c]
            /\ \A c \in Chan :
                 \A g \in {EveryGet(After(r), c)} :
                   \A i \in 1 .. Len(g) :
                     \E k \in 1 .. Len(g[i].io) : g[i].io[k].kind = "ask"

\* C34: reset invalidates everything. In every state the driver reaches, a
\* utility_reset with simulation off writes "*RST" and invalidates every
\* cache entry, so the first get of any parameter on any channel after it
\* sends a query; with simulation on it writes nothing and invalidates
\* nothing. The same holds for the reset of the SDG2000X driver.
C34_ResetInvalidatesAll ==
    /\ ResetsProperly(_utility_reset(Start(TRUE)))
    /\ ResetsProperly(SDG2000X_utility_reset(Start(TRUE)))
    /\ call.op \in {"utility_reset", "SDG2000X.utility_reset"}
         => IF simulate THEN io = << >>
            ELSE /\ Len(io) = 1
                 /\ io[1].text = "*RST"
                 /\ \A t \in Tags, c \in Chan \cup {NoChan} : ~valid[t][c]

\* A reset with simulation off came after a set had made the amplitude
\* entry valid, which is invalid now.
C34_Witness ==
    /\ call.op = "utility_reset"
    /\ ~simulate
    /\ Len(io) = 1
    /\ io[1].text = "*RST"
    /\ val[T_amp][0] = 3
    /\ ~valid[T_amp][0]

\* The command texts the burst configuration of channel c consists of, as the
\* claims state them, for the settings the driver holds.
BurstTexts(c) ==
    IF opmode[c] # "burst"
    THEN << "C" \o ToString(c + 1) \o ":BTWV STATE, OFF" >>
    ELSE << "C" \o ToString(c + 1)
              \o ":BTWV STATE, ON, GATE_NCYC, NCYC, TIME, "
              \o ToString(burst.count[c]) >>
         \o (CASE burst.trigger[c] = "external" ->
                    << "C" \o ToString(c + 1) \o ":BTWV TRSR,EXT" >>
               [] burst.trigger[c] = "internal" ->
                    << "C" \o ToString(c + 1) \o ":BTWV TRSR,INT",
                       "C" \o ToString(c + 1) \o ":BTWV PRD,"
                           \o (IF burst.rate = 2 THEN "0.5" ELSE "1.0")
                           \o "S" >>
               [] burst.trigger[c] = "software" ->
                    << "C" \o ToString(c + 1) \o ":BTWV TRSR,MAN" >>)

\* The texts sent by the call, in order.
TextsSent == [k \in 1 .. Len(io) |-> io[k].text]

\* C35: burst configuration ordering. After a set of the operation mode, the
\* burst count or the trigger source of a channel, or of the internal
\* trigger rate, the writes of a channel in burst mode are the command
\* "BTWV STATE, ON, GATE_NCYC, NCYC, TIME, <burst count>" first and then the
\* trigger commands as writes of their own on the same channel: TRSR,EXT,
\* or TRSR,INT and PRD, or TRSR,MAN.
C35_BurstCommandFirst ==
    /\ (/\ call.op \in {"set_output_operation_mode", "set_output_burst_count",
                         "set_output_trigger_source"}
        /\ err = E_none
        /\ opmode[call.ch] = "burst")
          => /\ TextsSent = BurstTexts(call.ch)
             /\ \A k \in 1 .. Len(io) :
                   io[k].kind = "write" /\ io[k].ch = call.ch
    /\ (call.op = "set_internal_trigger_rate" /\ err = E_none)
          => /\ TextsSent = BurstTexts(0) \o BurstTexts(1)
             /\ \A k \in 1 .. Len(io) :
                   io[k].ch = IF k <= Len(BurstTexts(0)) THEN 0 ELSE 1

\* The burst count of a channel in burst mode with the internal trigger
\* source was set to 3: three writes went out, the burst command first.
C35_Witness ==
    /\ call.op = "set_output_burst_count"
    /\ call.arg = 3
    /\ opmode[call.ch] = "burst"
    /\ burst.trigger[call.ch] = "internal"
    /\ Len(io) = 3
    /\ io[1].opt = "STATE"
    /\ io[2].opt = "TRSR"
    /\ io[3].opt = "PRD"

\* What a set of the internal trigger rate to v does, r being its result.
SetsRateProperly(r, v) ==
    /\ r.err = E_none
    /\ r.burst.rate = v
    /\ r.opmode = opmode
    /\ r.burst.trigger = burst.trigger
    /\ r.burst.count = burst.count
    /\ \A c \in Chan :
         /\ \E k \in 1 .. Len(r.io) : r.io[k].ch = c
         /\ Cardinality({k \in 1 .. Len(r.io) :
                            r.io[k].ch = c /\ r.io[k].opt = "PRD"})
              = IF opmode[c] = "burst" /\ burst.trigger[c] = "internal"
                THEN 1 ELSE 0
         /\ \A k \in 1 .. Len(r.io) :
              (r.io[k].ch = c /\ r.io[k].opt = "PRD")
                => r.io[k].text = "C" \o ToString(c + 1) \o ":BTWV PRD,"
                                     \o (IF v = 2 THEN "0.5" ELSE "1.0")
                                     \o "S"

\* C36: the internal trigger rate is one value for the whole driver. In
\* every state the driver reaches, a set of it stores the one value, issues
\* the burst configuration of every channel again, writes a PRD command
\* with the new period to exactly the channels in burst mode with the
\* internal trigger source, and changes no channel's operation mode, trigger
\* source or burst count; and the set that was made did so.
C36_TriggerRateProcessWide ==
    /\ \A v \in TriggerRates :
         SetsRateProperly(_set_internal_trigger_rate(Start(TRUE), v), v)
    /\ call.op = "set_internal_trigger_rate"
         => /\ burst.rate = call.arg
            /\ \A c \in Chan :
                 (\E k \in 1 .. Len(io) : io[k].ch = c /\ io[k].opt = "PRD")
                   <=> (opmode[c] = "burst" /\ burst.trigger[c] = "internal")

\* The rate was set to 2 with the first channel in burst mode on the
\* internal source and the second not in burst mode: the period went to the
\* first channel only.
C36_Witness ==
    /\ call.op = "set_internal_trigger_rate"
    /\ call.arg = 2
    /\ opmode[0] = "burst"
    /\ burst.trigger[0] = "internal"
    /\ opmode[1] = "continuous"
    /\ \E k \in 1 .. Len(io) :
          io[k].ch = 0 /\ io[k].text = "C1:BTWV PRD,0.5S"
    /\ \A k \in 1 .. Len(io) : io[k].ch = 1 => io[k].opt = "STATE"

\* The channels a software trigger is due to.
SoftwareTriggered ==
    {c \in Chan : opmode[c] = "burst" /\ burst.trigger[c] = "software"}

\* What a software trigger does, r being its result.
TriggersProperly(r) ==
    /\ r.err = E_none
    /\ r.val = val /\ r.valid = valid /\ r.fmode = fmode
    /\ r.opmode = opmode /\ r.burst = burst /\ r.dev = dev
    /\ Len(r.io) = Cardinality(SoftwareTriggered)
    /\ \A k \in 1 .. Len(r.io) : r.io[k].kind = "write"
    /\ \A c \in Chan :
         Cardinality({k \in 1 .. Len(r.io) :
                        /\ r.io[k].ch = c
                        /\ r.io[k].text
                             = "C" \o ToString(c + 1) \o ":BTWV MTRIG"})
           = IF c \in SoftwareTriggered THEN 1 ELSE 0

\* C37: in every state the driver reaches, send_software_trigger writes
\* "C<n>:BTWV MTRIG" once to each channel whose operation mode is "burst"
\* and whose trigger source is "software", writes nothing else and changes
\* no state of the driver; and the trigger that was sent did so.
C37_SoftwareTrigger ==
    /\ TriggersProperly(_send_software_trigger(Start(TRUE)))
    /\ call.op = "send_software_trigger"
         => /\ err = E_none
            /\ Len(io) = Cardinality(SoftwareTriggered)
            /\ \A k \in 1 .. Len(io) :
                 /\ io[k].ch \in SoftwareTriggered
                 /\ io[k].text
                      = "C" \o ToString(io[k].ch + 1) \o ":BTWV MTRIG"

\* A trigger was sent with the second channel in burst mode on the software
\* source and the first not: one write went out, to the second channel.
C37_Witness ==
    /\ call.op = "send_software_trigger"
    /\ SoftwareTriggered = {1}
    /\ Len(io) = 1
    /\ io[1].text = "C2:BTWV MTRIG"

\* C38: the decoder of the SDG2000X driver rejects an unknown channel
\* token. A reply whose header is prefixed with a channel token other than
\* C1 and C2 is not decoded: the decoder raises and attributes the reply to
\* no channel.
C38_UnknownTokenRejected ==
    (Decoded /\ reply.prefix = "C3")
        => /\ parsed.err # E_none
           /\ ~parsed.has_chan

\* What set_output_mode of the SDG2000X driver does on channel i with value
\* v, r being its result.
SetsModeProperly(r, i, v) ==
    IF v \in {"function", "arbitrary"}
    THEN /\ r.err = E_none
         /\ r.valid[T_mode][i]
         /\ r.val[T_mode][i] = v
         /\ \A c \in Chan \ {i} :
              /\ ~r.valid[T_mode][c]
              /\ r.val[T_mode][c] = val[T_mode][c]
              /\ ~simulate
                   => \A g \in {SDG2000X_get_output_mode(After(r), c)} :
                        Len(g.io) = 1 /\ g.io[1].kind = "ask"
    ELSE /\ r.err = E_unsupported
         /\ r.io = << >>
         /\ r.val = val
         /\ r.valid = valid

\* C39: in the SDG2000X driver, in every state the driver reaches, a
\* set_output_mode on channel i with a supported value leaves the
\* output-mode entry of i valid and equal to the value and the output-mode
\* entry of every other channel invalid, so that with simulation off the
\* next get_output_mode on another channel sends a query; an unsupported
\* value raises before any write and changes nothing. The set that was
\* made did so.
C39_ModeSetInvalidatesOthers ==
    /\ \A i \in Chan, v \in ModeInputs :
         SetsModeProperly(SDG2000X_set_output_mode(Start(TRUE), i, v), i, v)
    /\ (call.op = "SDG2000X.set_output_mode" /\ err = E_none)
         => /\ valid[T_mode][call.ch]
            /\ val[T_mode][call.ch] = call.arg
            /\ \A c \in Chan \ {call.ch} : ~valid[T_mode][c]
    /\ (call.op = "SDG2000X.set_output_mode" /\ err # E_none)
         => err = E_unsupported /\ io = << >>

\* The mode of the first channel was set after the entry of the second had
\* become valid with the value "arbitrary": it is invalid now.
C39_Witness ==
    /\ call.op = "SDG2000X.set_output_mode"
    /\ call.ch = 0
    /\ err = E_none
    /\ valid[T_mode][0]
    /\ val[T_mode][1] = "arbitrary"
    /\ ~valid[T_mode][1]

\* C40: arbitrary_waveform_create of the SDG2000X driver returns a handle
\* that is not among the catalog names loaded during the call and that
\* differs from every handle returned before; the handle counter never goes
\* down; a sample count that is not a multiple of the quantum raises
\* ValueNotSupportedException with nothing sent and no handle taken; and a
\* search that has begun ends.
HandlesFresh ==
    /\ \A i, j \in DOMAIN wfm.returned :
          i # j => wfm.returned[i] # wfm.returned[j]
    /\ call.op = "arbitrary_waveform_create" /\ wfm.pc = "idle"
          /\ err = E_none
       => /\ ret \notin Range(wfm.names)
          /\ ret = wfm.returned[Len(wfm.returned)]
          /\ ret = Handle(wfm.n)
    /\ call.op = "arbitrary_waveform_create"
          /\ call.arg % _arbitrary_waveform_quantum # 0
       => /\ err = E_unsupported
          /\ io = << >>
          /\ wfm.pc = "idle"

C40_HandleFreshness ==
    /\ []HandlesFresh
    /\ [][/\ wfm'.n >= wfm.n
          /\ wfm'.pc = "search"
             => wfm'.n - wfm.n <= 1]_vars
    /\ (wfm.pc = "search") ~> (wfm.pc = "idle" /\ err = E_none)

C40_Witness ==
    /\ call.op = "arbitrary_waveform_create"
    /\ wfm.pc = "idle"
    /\ err = E_none
    /\ ~simulate
    /\ wfm.returned = <<"w0002.wfm", "w0003.wfm">>
    /\ "w0001.wfm" \in Range(wfm.names)

====
